---------------------------- MODULE Spec2Model ----------------------------
(***************************************************************************)
(* AudioGlass native engine (src/native/TransparencyAudio.c): the elastic  *)
(* ring buffer between the capture and the playback callback, the drift    *)
(* compensation of the playback callback, and the engine lifecycle.        *)
(*                                                                         *)
(* Samples are fixed-point integers; a volume v stands for v / VolScale.   *)
(* The ring buffer (ma_pcm_rb) and the device layer (ma_device) are        *)
(* miniaudio's and are not part of the sources: they are modelled from     *)
(* the specification's description of them (sections 4.1, 5 and 6).        *)
(***************************************************************************)
EXTENDS Integers, Sequences, FiniteSets, TLC

(* ------------------------------ bounds ------------------------------- *)

\* Largest ring-buffer size (frames) a configuration asks for.
MaxRing == 4

\* Largest frameCount the device layer passes to a callback.
MaxFrames == 2

\* The statistics counters are explored up to this value.
MaxCount == 1

\* Largest ring-buffer size of the single-invocation specification.
MaxUnitRing == 29

\* Largest number of frames per callback of the single-invocation
\* specification.
MaxUnitFrames == 3

\* Largest ring-buffer size of the specification that starts a stopped
\* engine.
MaxStartRing == 6

\* Largest ring-buffer size of the specification that starts the engine
\* again after its playback device stopped.
MaxRestartRing == 3

\* Largest ring-buffer size of the specification with matched sides.
MaxMatchedRing == 5

(* ------------------------- program constants ------------------------- *)

TA_DEFAULT_RING_BUFFER_FRAMES == 2048

TA_RING_BUFFER_TARGET_PERCENT == 50

TA_DRIFT_LOW_THRESHOLD_PERCENT == 25

TA_DRIFT_HIGH_THRESHOLD_PERCENT == 75

\* float lastSample[8]
LastSampleSlots == 8

\* Fixed-point unit of the float volume: volume v stands for v / VolScale.
VolScale == 2

TA_SUCCESS == "TA_SUCCESS"

TA_ERROR == "TA_ERROR"

TA_INVALID_ARGS == "TA_INVALID_ARGS"

TA_OUT_OF_MEMORY == "TA_OUT_OF_MEMORY"

TA_DEVICE_NOT_INITIALIZED == "TA_DEVICE_NOT_INITIALIZED"

TA_DEVICE_ALREADY_INITIALIZED == "TA_DEVICE_ALREADY_INITIALIZED"

TA_FAILED_TO_INIT_BACKEND == "TA_FAILED_TO_INIT_BACKEND"

TA_FAILED_TO_OPEN_BACKEND_DEVICE == "TA_FAILED_TO_OPEN_BACKEND_DEVICE"

TA_FAILED_TO_START_BACKEND_DEVICE == "TA_FAILED_TO_START_BACKEND_DEVICE"

(* ------------------------------ helpers ------------------------------ *)

Min(a, b) == IF a < b THEN a ELSE b

Max(a, b) == IF a > b THEN a ELSE b

\* memset(.., 0, ..) of one frame / of the cache
ZeroFrame(ch) == [c \in 1..ch |-> 0]

ZeroCache == [c \in 1..LastSampleSlots |-> 0]

\* Memory nobody has written yet (malloc'ed storage, the device's output
\* buffer with noPreSilencedOutputBuffer): a value no sample ever takes.
Unwritten == -1

UnwrittenFrame(ch) == [c \in 1..ch |-> Unwritten]

\* The hardware input: frame number k of the capture stream, channel c.
\* Successive frames and different channels carry different samples.
TagCycle == MaxFrames + 1

InputSample(k, c) == VolScale * (1 + (k % TagCycle)) + VolScale * TagCycle * (c - 1)

InputFrame(k, ch) == [c \in 1..ch |-> InputSample(k, c)]

\* writePtr[i] = readPtr[i] * volume
ApplyVolume(s, v) == (s * v) \div VolScale

ScaleFrame(f, v) == [c \in 1..Len(f) |-> ApplyVolume(f[c], v)]

\* a store that leaves the cache as it was
CacheKept(cache, f) == cache

\* lastSample[ch] = frame[ch] for ch < channels, the other slots untouched
CacheFrame(cache, f) == [c \in 1..LastSampleSlots |-> IF c <= Len(f) THEN f[c] ELSE cache[c]]

\* a frame of silence in place of the cached frame
SilentFrame(cache, ch) == ZeroFrame(ch)

\* output[i*channels + ch] = lastSample[ch]
CachedFrame(cache, ch) == [c \in 1..ch |-> cache[c]]

(* --------------------------- configurations -------------------------- *)

\* ta_engine_config: the fields the engine reads.  channels 0 and
\* ringBufferSizeFrames 0 ask for the defaults.  `present` is FALSE for a
\* NULL config pointer.
Configs == [present : {TRUE}, volume : {1, 2}, channels : {0, 1},
            ringBufferSizeFrames : {3, MaxRing}]

NULL == [present |-> FALSE, volume |-> 0, channels |-> 0, ringBufferSizeFrames |-> 0]

(* ------------------------------- state ------------------------------- *)

VARIABLES
    initialized, running, volume, channels,
    ringBufferSizeInFrames, ringBufferTargetFrames,
    ringBufferMemory, rbRead, rbWrite,
    underrunCount, overrunCount, driftCorrectionCount,
    lastSample, stateChangedCallback, lastError,
    captureDevice, playbackDevice, startedPending,
    ctl, ctlOp, ret,
    cpc, cap, ppc, play, output,
    capSeq, expected, fidelityOk, lastNotify,
    resources, status, stale

engineVars == <<initialized, running, volume, channels,
                ringBufferSizeInFrames, ringBufferTargetFrames,
                underrunCount, overrunCount, driftCorrectionCount,
                lastSample, stateChangedCallback, lastError>>

rbVars == <<ringBufferMemory, rbRead, rbWrite>>

deviceVars == <<captureDevice, playbackDevice, startedPending>>

controlVars == <<ctl, ctlOp>>

captureVars == <<cpc, cap>>

playbackVars == <<ppc, play, output>>

ghostVars == <<capSeq, expected, fidelityOk>>

notifyVars == <<lastNotify>>

vars == <<engineVars, rbVars, deviceVars, controlVars, ret,
          captureVars, playbackVars, ghostVars, notifyVars,
          resources, status, stale>>


(* ------------------- the ring buffer (ma_pcm_rb) --------------------- *)
(* The cursors are kept modulo 2 * capacity (the offset in the storage    *)
(* and the parity of the lap), which determines the offset and, while     *)
(* the cursors are at most one capacity apart, their distance.            *)

rb_offset(cursor, capacity) == IF capacity = 0 THEN 0 ELSE cursor % capacity

ma_pcm_rb_available_read(r, w, capacity) ==
    IF capacity = 0 THEN 0 ELSE (w - r) % (2 * capacity)

ma_pcm_rb_available_write(r, w, capacity) == capacity - ma_pcm_rb_available_read(r, w, capacity)

\* frames granted: at most maxFrames, the free space, and the span up to
\* the end of the storage
ma_pcm_rb_acquire_write(r, w, capacity, maxFrames) ==
    Max(0, Min(maxFrames, Min(ma_pcm_rb_available_write(r, w, capacity),
                              capacity - rb_offset(w, capacity))))

\* frames granted: at most maxFrames, the readable frames, and the span
\* up to the end of the storage
ma_pcm_rb_acquire_read(r, w, capacity, maxFrames) ==
    Max(0, Min(maxFrames, Min(ma_pcm_rb_available_read(r, w, capacity),
                              capacity - rb_offset(r, capacity))))

\* commit_write / commit_read: the cursor advances by exactly `frames`
ma_pcm_rb_commit(cursor, capacity, frames) ==
    IF capacity = 0 THEN 0 ELSE (cursor + frames) % (2 * capacity)

\* ma_pcm_rb_reset
ma_pcm_rb_reset == 0

\* The storage slots (1-based) of `count` frames starting at a cursor's offset.
Slots(cursor, capacity, count) ==
    {rb_offset(cursor, capacity) + i : i \in 1..count} \cap (1..capacity)

(* -------------------------- derived notions -------------------------- *)

Idle == "Idle"

Initialized == "Initialized"

Running == "Running"

\* The lifecycle state of section 4.4, from the two flags of ta_engine.
EngineState ==
    IF initialized = 0 THEN Idle
    ELSE IF running = 0 THEN Initialized ELSE Running

AvailableRead == ma_pcm_rb_available_read(rbRead, rbWrite, ringBufferSizeInFrames)

AvailableWrite == ma_pcm_rb_available_write(rbRead, rbWrite, ringBufferSizeInFrames)

\* The readable frames, oldest first.
Readable(mem, r, capacity, count) ==
    [i \in 1..count |-> mem[rb_offset(r + i - 1, capacity) + 1]]

\* The bookkeeping of the fidelity observation stops at the first overrun,
\* underrun or mismatch.
Track(ok, over, under, q) == IF ok /\ over = 0 /\ under = 0 THEN q ELSE <<>>

(* ----------------------------- initial state -------------------------- *)

NoCall == [op |-> "none", result |-> "none"]

NoSnapshot == [rbRead |-> 0, rbWrite |-> 0, mem |-> <<>>, lastSample |-> ZeroCache,
               underrunCount |-> 0, overrunCount |-> 0, driftCorrectionCount |-> 0,
               running |-> 0]

Snapshot == [rbRead |-> rbRead, rbWrite |-> rbWrite, mem |-> ringBufferMemory,
             lastSample |-> lastSample,
             underrunCount |-> underrunCount, overrunCount |-> overrunCount,
             driftCorrectionCount |-> driftCorrectionCount, running |-> running]

CapIdle == [frameCount |-> 0, first |-> 0, framesToWrite |-> 0, writeAvailable |-> 0,
            offset |-> 0, pre |-> NoSnapshot]

PlayIdle == [frameCount |-> 0, framesToRead |-> 0, actualRead |-> 0, offset |-> 0,
             skipped |-> 0, pre |-> NoSnapshot]

\* What the engine holds outside its own fields: the backend context, the
\* device lists the context owns (captureDevices, playbackDevices and their
\* counts), the ring buffer storage (ringBufferMemory) and the ring buffer
\* object.  A pointer the engine still holds to something already released
\* is "dangling".
NoResources == [context |-> "none", deviceList |-> "none",
                storage |-> "none", ringBuffer |-> "none"]

\* The caller's ta_engine_status before any AudioEngine_GetStatus wrote it.
\* ringBufferFillLevel is availableRead / capacity (0 when capacity is 0);
\* readCursor is the read cursor ma_pcm_rb_available_read has loaded while
\* the call is in progress.
NoStatus == [written |-> FALSE, isRunning |-> 0, currentVolume |-> 0,
             underrunCount |-> 0, overrunCount |-> 0, driftCorrectionCount |-> 0,
             lastError |-> TA_SUCCESS, readCursor |-> 0,
             availableRead |-> 0, capacity |-> 0]

\* static ta_engine g_engine = {0};
Init ==
    /\ initialized = 0 /\ running = 0 /\ volume = 0 /\ channels = 0
    /\ ringBufferSizeInFrames = 0 /\ ringBufferTargetFrames = 0
    /\ ringBufferMemory = <<>> /\ rbRead = 0 /\ rbWrite = 0
    /\ underrunCount = 0 /\ overrunCount = 0 /\ driftCorrectionCount = 0
    /\ lastSample = ZeroCache /\ stateChangedCallback = FALSE
    /\ lastError = TA_SUCCESS
    /\ captureDevice = "none" /\ playbackDevice = "none" /\ startedPending = FALSE
    /\ ctl = "idle" /\ ctlOp = "none" /\ ret = NoCall
    /\ cpc = "idle" /\ cap = CapIdle
    /\ ppc = "idle" /\ play = PlayIdle /\ output = <<>>
    /\ capSeq = 0 /\ expected = <<>> /\ fidelityOk = TRUE
    /\ lastNotify = <<>>
    /\ resources = NoResources /\ status = NoStatus /\ stale = {}

\* The caller's status structure is followed while AudioEngine_GetStatus
\* is filling it and in the state in which that call returns; no other
\* step writes it.
StatusKept == status' = IF ctl = "get_status" THEN status ELSE NoStatus

\* The operation a step belongs to and its result ("none" until the call
\* returns).
Called(op, result) == [op |-> op, result |-> result]

(* ------------------------- notification hooks ------------------------- *)

\* if (g_engine.stateChangedCallback) g_engine.stateChangedCallback(v):
\* lastNotify is what the last step handed to the handler: <<v>>, or <<>>
\* when the step did not invoke it.
NotifyStateChanged(registered, v) ==
    lastNotify' = IF registered THEN <<v>> ELSE <<>>

\* a step that reaches no call of the handler
Silent == lastNotify' = <<>>

(* ------------------- capture_callback (lines 185-232) ----------------- *)

\* callbacks that take the engine for Running whatever the flag says
CallbackAlwaysRunning == FALSE

\* lines 189 and 251: if (!g_engine.running), the first test of both
\* callbacks
CallbackNotRunning == running = 0

\* framesToWrite after the overflow check of lines 194-203
FramesToWrite(frameCount, availableWrite) ==
    IF frameCount > availableWrite THEN availableWrite ELSE frameCount

\* a copy of every frame asked of the acquire
CaptureCopyRequested(framesToWrite, writeAvailable) == framesToWrite

\* the frames the copy loop stores (line 215: sampleCount)
CaptureCopyFrames(framesToWrite, writeAvailable) == writeAvailable

\* the frames ma_pcm_rb_commit_write is given (line 229)
CaptureCommitFrames(frameCount, writeAvailable) == writeAvailable

\* lines 189-203: the running check and the overflow check
CaptureBegin(frameCount) ==
    /\ StatusKept /\ UNCHANGED <<resources, stale>>
    /\ cpc = "idle"
    /\ captureDevice = "started"
    /\ IF CallbackNotRunning
       THEN /\ cap' = [CapIdle EXCEPT !.frameCount = frameCount, !.pre = Snapshot]
            /\ cpc' = "done"
            /\ UNCHANGED <<overrunCount, capSeq, expected>>
       ELSE LET availableWrite == AvailableWrite
                over == frameCount > availableWrite
                framesToWrite == FramesToWrite(frameCount, availableWrite)
            IN  /\ over => overrunCount < MaxCount
                /\ overrunCount' = IF over THEN overrunCount + 1 ELSE overrunCount
                /\ cap' = [CapIdle EXCEPT !.frameCount = frameCount, !.first = capSeq,
                                          !.framesToWrite = framesToWrite,
                                          !.pre = Snapshot]
                /\ cpc' = IF framesToWrite > 0 THEN "acquire" ELSE "done"
                /\ capSeq' = (capSeq + frameCount) % TagCycle
                /\ expected' = Track(fidelityOk, overrunCount', underrunCount, expected)
    /\ ret' = NoCall
    /\ UNCHANGED <<initialized, running, volume, channels, ringBufferSizeInFrames,
                   ringBufferTargetFrames, underrunCount, driftCorrectionCount,
                   lastSample, stateChangedCallback, lastError>>
    /\ UNCHANGED <<rbVars, deviceVars, controlVars, playbackVars, fidelityOk>>
    /\ Silent

\* line 210: ma_pcm_rb_acquire_write
CaptureAcquire ==
    /\ StatusKept /\ UNCHANGED <<resources, stale>>
    /\ cpc = "acquire"
    /\ cap' = [cap EXCEPT
                 !.writeAvailable = ma_pcm_rb_acquire_write(rbRead, rbWrite,
                                        ringBufferSizeInFrames, cap.framesToWrite),
                 !.offset = rb_offset(rbWrite, ringBufferSizeInFrames)]
    /\ cpc' = "copy"
    /\ ret' = NoCall
    /\ UNCHANGED <<engineVars, rbVars, deviceVars, controlVars, playbackVars,
                   ghostVars>>
    /\ Silent

\* The frames of this invocation as they are stored: input times volume.
CaptureStored(i) == ScaleFrame(InputFrame(cap.first + i, channels), volume)

\* The storage slots (1-based) the copy loop of lines 218-220 stores into.
CaptureWriteSlots ==
    {cap.offset + i : i \in 1..CaptureCopyFrames(cap.framesToWrite, cap.writeAvailable)}

\* lines 211-227: the copy with the volume applied, and the cache of the
\* last frame written
CaptureCopy ==
    /\ StatusKept /\ UNCHANGED resources
    /\ cpc = "copy"
    /\ ringBufferMemory' =
         [s \in 1..Len(ringBufferMemory) |->
            IF s \in CaptureWriteSlots
            THEN CaptureStored(s - cap.offset - 1)
            ELSE ringBufferMemory[s]]
    /\ lastSample' = IF cap.writeAvailable > 0
                     THEN CacheFrame(lastSample, CaptureStored(cap.writeAvailable - 1))
                     ELSE lastSample
    /\ expected' = Track(fidelityOk, overrunCount, underrunCount,
                         expected \o [i \in 1..cap.frameCount |-> CaptureStored(i - 1)])
    /\ stale' = stale \ CaptureWriteSlots
    /\ cpc' = "commit"
    /\ ret' = NoCall
    /\ UNCHANGED <<initialized, running, volume, channels, ringBufferSizeInFrames,
                   ringBufferTargetFrames, underrunCount, overrunCount,
                   driftCorrectionCount, stateChangedCallback, lastError>>
    /\ UNCHANGED <<rbRead, rbWrite, deviceVars, controlVars, cap,
                   playbackVars, capSeq, fidelityOk>>
    /\ Silent

\* line 229: ma_pcm_rb_commit_write
CaptureCommit ==
    /\ StatusKept /\ UNCHANGED <<resources, stale>>
    /\ cpc = "commit"
    /\ rbWrite' = ma_pcm_rb_commit(rbWrite, ringBufferSizeInFrames,
                                   CaptureCommitFrames(cap.frameCount, cap.writeAvailable))
    /\ cpc' = "done"
    /\ ret' = NoCall
    /\ UNCHANGED <<engineVars, ringBufferMemory, rbRead, cap, deviceVars, controlVars,
                   playbackVars, ghostVars>>
    /\ Silent

\* the callback returns to the device layer
CaptureReturn ==
    /\ StatusKept /\ UNCHANGED <<resources, stale>>
    /\ cpc = "done"
    /\ cpc' = "idle"
    /\ cap' = CapIdle
    /\ ret' = NoCall
    /\ UNCHANGED <<engineVars, rbVars, deviceVars, controlVars, playbackVars,
                   ghostVars>>
    /\ Silent


(* ------------------ playback_callback (lines 245-340) ----------------- *)

\* lines 261-263: the fill percentage (ma_uint32 arithmetic; nothing wraps
\* for the sizes explored here)
FillPercent(availableRead, capacity) ==
    IF capacity > 0 THEN (availableRead * 100) \div capacity ELSE 0

\* lines 270 and 276: the buffer is running dry and cannot serve the request
DriftLow(availableRead, capacity, frameCount) ==
    /\ FillPercent(availableRead, capacity) < TA_DRIFT_LOW_THRESHOLD_PERCENT
    /\ availableRead < frameCount

\* the compress branch entered one frame later
DriftHighLate(availableRead, capacity, frameCount) ==
    /\ FillPercent(availableRead, capacity) > TA_DRIFT_HIGH_THRESHOLD_PERCENT
    /\ availableRead > frameCount + 2

\* line 293: the buffer is filling up
DriftHigh(availableRead, capacity, frameCount) ==
    /\ ~(FillPercent(availableRead, capacity) < TA_DRIFT_LOW_THRESHOLD_PERCENT)
    /\ FillPercent(availableRead, capacity) > TA_DRIFT_HIGH_THRESHOLD_PERCENT
    /\ availableRead > frameCount + 1

\* line 303: the frames the compress step asks to skip
SkipFrames == 1

\* a commit of every frame the device asked for
PlaybackCommitRequested(frameCount, actualRead) == frameCount

\* the frames ma_pcm_rb_commit_read is given (line 329)
PlaybackCommitFrames(frameCount, actualRead) == actualRead

\* a padding loop that stores nothing
LeftUnfilled(out, from, cache, ch) == out

\* lines 282-286 and 334-338: output frames from..frameCount are the cache
FillFromCache(out, from, cache, ch) ==
    [i \in 1..Len(out) |-> IF i >= from THEN CachedFrame(cache, ch) ELSE out[i]]

\* lines 251-299: the running check and the drift decision, up to the
\* first counter either rule increments (underrunCount at line 277,
\* driftCorrectionCount at line 299)
PlaybackBegin(frameCount) ==
    /\ StatusKept /\ UNCHANGED <<resources, stale>>
    /\ ppc = "idle"
    /\ playbackDevice = "started"
    /\ IF CallbackNotRunning
       THEN /\ output' = [i \in 1..frameCount |-> ZeroFrame(channels)]
            /\ play' = [PlayIdle EXCEPT !.frameCount = frameCount, !.pre = Snapshot]
            /\ ppc' = "done"
            /\ UNCHANGED <<underrunCount, driftCorrectionCount, expected>>
       ELSE LET availableRead == AvailableRead
                low == DriftLow(availableRead, ringBufferSizeInFrames, frameCount)
                high == DriftHigh(availableRead, ringBufferSizeInFrames, frameCount)
            IN  /\ low => underrunCount < MaxCount
                /\ (low \/ high) => driftCorrectionCount < MaxCount
                /\ underrunCount' = IF low THEN underrunCount + 1
                                    ELSE underrunCount
                /\ driftCorrectionCount' =
                       IF high THEN driftCorrectionCount + 1
                       ELSE driftCorrectionCount
                /\ play' = [PlayIdle EXCEPT
                              !.frameCount = frameCount,
                              !.framesToRead = IF low THEN availableRead ELSE frameCount,
                              !.actualRead = IF low THEN availableRead ELSE frameCount,
                              !.pre = Snapshot]
                /\ output' = [i \in 1..frameCount |-> UnwrittenFrame(channels)]
                /\ ppc' = IF low THEN "count"
                          ELSE IF high THEN "skip" ELSE "read"
                /\ expected' = Track(fidelityOk, overrunCount, underrunCount', expected)
    /\ ret' = NoCall
    /\ UNCHANGED <<initialized, running, volume, channels, ringBufferSizeInFrames,
                   ringBufferTargetFrames, overrunCount, lastSample,
                   stateChangedCallback, lastError>>
    /\ UNCHANGED <<rbVars, deviceVars, controlVars, captureVars, capSeq, fidelityOk>>
    /\ Silent

\* lines 278-291: the second counter of an underrun, then the output of
\* the cached frame when nothing was available at line 257
PlaybackCountDrift ==
    /\ StatusKept /\ UNCHANGED <<resources, stale>>
    /\ ppc = "count"
    /\ driftCorrectionCount' = driftCorrectionCount + 1
    /\ output' = IF play.framesToRead = 0
                 THEN [i \in 1..play.frameCount |-> CachedFrame(lastSample, channels)]
                 ELSE output
    /\ ppc' = IF play.framesToRead = 0 THEN "done" ELSE "read"
    /\ ret' = NoCall
    /\ UNCHANGED <<initialized, running, volume, channels, ringBufferSizeInFrames,
                   ringBufferTargetFrames, underrunCount, overrunCount, lastSample,
                   stateChangedCallback, lastError>>
    /\ UNCHANGED <<rbVars, deviceVars, controlVars, captureVars, play, ghostVars>>
    /\ Silent

\* lines 301-309: read one frame and discard it
PlaybackSkip ==
    /\ StatusKept /\ UNCHANGED <<resources, stale>>
    /\ ppc = "skip"
    /\ LET skipFrames == ma_pcm_rb_acquire_read(rbRead, rbWrite, ringBufferSizeInFrames,
                                                SkipFrames)
       IN  /\ rbRead' = ma_pcm_rb_commit(rbRead, ringBufferSizeInFrames, skipFrames)
           /\ play' = [play EXCEPT !.skipped = skipFrames]
    /\ ppc' = "read"
    /\ ret' = NoCall
    /\ UNCHANGED <<engineVars, ringBufferMemory, rbWrite, deviceVars, controlVars,
                   captureVars, output, ghostVars>>
    /\ Silent

\* line 317: ma_pcm_rb_acquire_read
PlaybackAcquire ==
    /\ StatusKept /\ UNCHANGED <<resources, stale>>
    /\ ppc = "read"
    /\ LET actualRead == ma_pcm_rb_acquire_read(rbRead, rbWrite, ringBufferSizeInFrames,
                                                play.framesToRead)
       IN  /\ play' = [play EXCEPT !.actualRead = actualRead,
                                   !.offset = rb_offset(rbRead, ringBufferSizeInFrames)]
           /\ ppc' = IF actualRead > 0 THEN "copy" ELSE "pad"
    /\ ret' = NoCall
    /\ UNCHANGED <<engineVars, rbVars, deviceVars, controlVars, captureVars, output,
                   ghostVars>>
    /\ Silent

\* The storage slots (1-based) the memcpy of line 319 reads.
PlaybackReadSlots == {play.offset + i : i \in 1..play.actualRead}

\* lines 319-327: the copy to the output and the cache of the last frame read
PlaybackCopy ==
    /\ StatusKept /\ UNCHANGED <<resources, stale>>
    /\ ppc = "copy"
    /\ output' = [i \in 1..Len(output) |->
                    IF play.offset + i \in PlaybackReadSlots \cap DOMAIN ringBufferMemory
                    THEN ringBufferMemory[play.offset + i] ELSE output[i]]
    /\ lastSample' = IF play.offset + play.actualRead <= Len(ringBufferMemory)
                     THEN CacheFrame(lastSample,
                                     ringBufferMemory[play.offset + play.actualRead])
                     ELSE lastSample
    /\ ppc' = "commit"
    /\ ret' = NoCall
    /\ UNCHANGED <<initialized, running, volume, channels, ringBufferSizeInFrames,
                   ringBufferTargetFrames, underrunCount, overrunCount,
                   driftCorrectionCount, stateChangedCallback, lastError>>
    /\ UNCHANGED <<rbVars, deviceVars, controlVars, captureVars, play, ghostVars>>
    /\ Silent

\* line 329: ma_pcm_rb_commit_read
PlaybackCommit ==
    /\ StatusKept /\ UNCHANGED <<resources, stale>>
    /\ ppc = "commit"
    /\ rbRead' = ma_pcm_rb_commit(rbRead, ringBufferSizeInFrames,
                                  PlaybackCommitFrames(play.frameCount, play.actualRead))
    /\ ppc' = "pad"
    /\ ret' = NoCall
    /\ UNCHANGED <<engineVars, ringBufferMemory, rbWrite, deviceVars, controlVars,
                   captureVars, play, output, ghostVars>>
    /\ Silent

\* lines 333-339: the rest of the output repeats the cached frame
PlaybackPad ==
    /\ StatusKept /\ UNCHANGED <<resources, stale>>
    /\ ppc = "pad"
    /\ output' = IF play.actualRead < play.frameCount
                 THEN FillFromCache(output, play.actualRead + 1, lastSample, channels)
                 ELSE output
    /\ LET n == play.frameCount
           tracking == fidelityOk /\ overrunCount = 0 /\ underrunCount = 0
           same == /\ Len(expected) >= n
                   /\ SubSeq(expected, 1, n) = output'
       IN  /\ fidelityOk' = (fidelityOk /\ (tracking => same))
           /\ expected' = IF tracking /\ same
                          THEN SubSeq(expected, n + 1, Len(expected)) ELSE <<>>
    /\ ppc' = "done"
    /\ ret' = NoCall
    /\ UNCHANGED <<engineVars, rbVars, deviceVars, controlVars, captureVars, play,
                   capSeq>>
    /\ Silent

\* the callback returns to the device layer, which plays the output
PlaybackReturn ==
    /\ StatusKept /\ UNCHANGED <<resources, stale>>
    /\ ppc = "done"
    /\ ppc' = "idle"
    /\ play' = PlayIdle
    /\ output' = <<>>
    /\ ret' = NoCall
    /\ UNCHANGED <<engineVars, rbVars, deviceVars, controlVars, captureVars,
                   ghostVars>>
    /\ Silent


(* --------------- AudioEngine_Initialize (lines 463-598) --------------- *)

InitStages == {"none", "context", "enumerate", "malloc", "ring_buffer",
               "capture_device", "playback_device"}

\* g_engine.channels = config->channels > 0 ? config->channels : 2;
ConfigChannels(cfg) == IF cfg.channels > 0 THEN cfg.channels ELSE 2

\* lines 516-519
ConfigRingSize(cfg) ==
    IF cfg.ringBufferSizeFrames > 0 THEN cfg.ringBufferSizeFrames
    ELSE TA_DEFAULT_RING_BUFFER_FRAMES

TargetFrames(size) == (size * TA_RING_BUFFER_TARGET_PERCENT) \div 100

\* The result of an Initialize that fails at `stage`.
InitFailure(stage) ==
    CASE stage = "context" -> TA_FAILED_TO_INIT_BACKEND
      [] stage = "enumerate" -> TA_ERROR
      [] stage = "malloc" -> TA_OUT_OF_MEMORY
      [] stage = "ring_buffer" -> TA_ERROR
      [] stage = "capture_device" -> TA_FAILED_TO_OPEN_BACKEND_DEVICE
      [] stage = "playback_device" -> TA_FAILED_TO_OPEN_BACKEND_DEVICE
      [] OTHER -> TA_SUCCESS

\* What the engine holds when Initialize returns after failing at `stage`
\* ("none": no failure).  Every failure path releases what was acquired, but
\* only the memset at the next Initialize or Uninitialize clears the fields:
\* ma_context_uninit (lines 525, 534, 561, 589) releases the device lists
\* while captureDevices, playbackDevices and the counts keep their values,
\* and free (lines 533, 560, 588) leaves ringBufferMemory pointing at the
\* released storage.
InitResources(stage) ==
    [context |-> IF stage = "none" THEN "held" ELSE "none",
     deviceList |-> IF stage = "none" THEN "held"
                    ELSE IF stage \in {"context", "enumerate"} THEN "none"
                    ELSE "dangling",
     storage |-> IF stage = "none" THEN "held"
                 ELSE IF stage \in {"ring_buffer", "capture_device", "playback_device"}
                 THEN "dangling" ELSE "none",
     ringBuffer |-> IF stage = "none" THEN "held" ELSE "none"]

\* `cfg` is NULL or a configuration; `stage` is the step that fails, if any.
\* the state check made before the argument check
InitializeRefusalStateFirst(cfg) ==
    IF initialized # 0 THEN TA_DEVICE_ALREADY_INITIALIZED
    ELSE IF ~cfg.present THEN TA_INVALID_ARGS ELSE "none"

\* lines 466-474: the argument check, then the state check
InitializeRefusal(cfg) ==
    IF ~cfg.present THEN TA_INVALID_ARGS
    ELSE IF initialized # 0 THEN TA_DEVICE_ALREADY_INITIALIZED ELSE "none"

AudioEngine_Initialize(cfg, stage) ==
    /\ StatusKept
    /\ ctl = "idle"
    /\ IF InitializeRefusal(cfg) # "none"
       THEN /\ lastError' = InitializeRefusal(cfg)
            /\ ret' = Called("AudioEngine_Initialize", InitializeRefusal(cfg))
            /\ stage = "none"
            /\ UNCHANGED <<initialized, running, volume, channels,
                           ringBufferSizeInFrames, ringBufferTargetFrames,
                           underrunCount, overrunCount, driftCorrectionCount,
                           lastSample, stateChangedCallback>>
            /\ UNCHANGED <<rbVars, deviceVars, ghostVars, resources, stale>>
       ELSE LET sized == stage \notin {"context", "enumerate"}
                size == IF sized THEN ConfigRingSize(cfg) ELSE 0
            IN  \* memset(&g_engine, 0, sizeof(ta_engine)), then the steps
                /\ running' = 0
                /\ underrunCount' = 0 /\ overrunCount' = 0 /\ driftCorrectionCount' = 0
                /\ lastSample' = ZeroCache
                /\ stateChangedCallback' = FALSE
                /\ volume' = cfg.volume
                /\ channels' = ConfigChannels(cfg)
                /\ ringBufferSizeInFrames' = size
                /\ ringBufferTargetFrames' = TargetFrames(size)
                /\ rbRead' = 0 /\ rbWrite' = 0
                /\ ringBufferMemory' =
                       IF stage = "none"
                       THEN [i \in 1..size |-> UnwrittenFrame(ConfigChannels(cfg))]
                       ELSE <<>>
                /\ captureDevice' = IF stage = "none" THEN "stopped" ELSE "none"
                /\ playbackDevice' = IF stage = "none" THEN "stopped" ELSE "none"
                /\ startedPending' = FALSE
                /\ initialized' = IF stage = "none" THEN 1 ELSE 0
                /\ lastError' = InitFailure(stage)
                /\ ret' = Called("AudioEngine_Initialize", InitFailure(stage))
                /\ resources' = InitResources(stage)
                /\ capSeq' = 0 /\ expected' = <<>> /\ fidelityOk' = TRUE
                /\ stale' = {}
    /\ UNCHANGED <<controlVars, captureVars, playbackVars>>
    /\ Silent

(* ----------------- AudioEngine_Start (lines 600-674) ------------------ *)

\* a Start that writes no silence
NoPreFill(target, capacity) == 0

\* lines 634-641: the frames of silence Start writes
PreFillFrames(target, capacity) == ma_pcm_rb_acquire_write(0, 0, capacity, target)

\* The slots whose content Start leaves as it found it: every slot after
\* the n frames of silence it writes from offset 0.
StaleAfterStart(n, capacity) == (n + 1)..capacity

\* an engine that is never refused for not being initialized
NeverRefused == FALSE

\* lines 601 and 677: if (!g_engine.initialized)
NotInitialized == initialized = 0

\* an engine that is never taken to be running already
NeverRunning == FALSE

\* line 606: if (g_engine.running)
AlreadyRunning == running # 0

\* lines 600-641: the state checks, the reset and the pre-fill.  mmcssOk
\* is whether AvSetMmThreadCharacteristicsW succeeded.
StartBegin(mmcssOk) ==
    /\ StatusKept /\ UNCHANGED resources
    /\ ctl = "idle"
    /\ IF NotInitialized
       THEN /\ lastError' = TA_DEVICE_NOT_INITIALIZED
            /\ ret' = Called("AudioEngine_Start", TA_DEVICE_NOT_INITIALIZED)
            /\ mmcssOk
            /\ UNCHANGED <<underrunCount, overrunCount, driftCorrectionCount,
                           lastSample, rbVars, controlVars, ghostVars, stale>>
       ELSE IF AlreadyRunning
       THEN /\ ret' = Called("AudioEngine_Start", TA_SUCCESS)
            /\ mmcssOk
            /\ UNCHANGED <<underrunCount, overrunCount, driftCorrectionCount,
                           lastSample, lastError, rbVars, controlVars, ghostVars,
                           stale>>
       ELSE LET n == PreFillFrames(ringBufferTargetFrames, ringBufferSizeInFrames)
            IN  /\ lastError' = IF mmcssOk THEN lastError ELSE TA_ERROR
                /\ underrunCount' = 0 /\ overrunCount' = 0 /\ driftCorrectionCount' = 0
                /\ rbRead' = ma_pcm_rb_reset
                /\ lastSample' = ZeroCache
                /\ ringBufferMemory' =
                       [s \in 1..Len(ringBufferMemory) |->
                          IF s <= n THEN ZeroFrame(channels) ELSE ringBufferMemory[s]]
                /\ rbWrite' = ma_pcm_rb_commit(ma_pcm_rb_reset, ringBufferSizeInFrames, n)
                /\ capSeq' = 0
                /\ expected' = [i \in 1..n |-> ZeroFrame(channels)]
                /\ fidelityOk' = TRUE
                /\ stale' = StaleAfterStart(n, ringBufferSizeInFrames)
                /\ ctl' = "start_capture" /\ ctlOp' = "Start"
                /\ ret' = Called("AudioEngine_Start", "none")
    /\ UNCHANGED <<initialized, running, volume, channels, ringBufferSizeInFrames,
                   ringBufferTargetFrames, stateChangedCallback>>
    /\ UNCHANGED <<deviceVars, captureVars, playbackVars>>
    /\ Silent

\* a Start that goes on to the playback device without starting capture
CaptureLeftAsIs == captureDevice

\* line 644: the capture device once ma_device_start has succeeded
CaptureStarted == "started"

\* lines 644-652: ma_device_start(&g_engine.captureDevice)
StartCapture(ok) ==
    /\ StatusKept /\ UNCHANGED <<resources, stale>>
    /\ ctl = "start_capture"
    /\ IF ok
       THEN /\ captureDevice' = CaptureStarted
            /\ ctl' = "start_playback"
            /\ ret' = Called("AudioEngine_Start", "none")
            /\ UNCHANGED <<lastError, ctlOp>>
       ELSE /\ captureDevice = "stopped"
            /\ lastError' = TA_FAILED_TO_START_BACKEND_DEVICE
            /\ ctl' = "idle" /\ ctlOp' = "none"
            /\ ret' = Called("AudioEngine_Start", TA_FAILED_TO_START_BACKEND_DEVICE)
            /\ UNCHANGED captureDevice
    /\ UNCHANGED <<initialized, running, volume, channels, ringBufferSizeInFrames,
                   ringBufferTargetFrames, underrunCount, overrunCount,
                   driftCorrectionCount, lastSample, stateChangedCallback>>
    /\ UNCHANGED <<rbVars, playbackDevice, startedPending, captureVars, playbackVars,
                   ghostVars>>
    /\ Silent

\* a failure path that leaves the capture device as it is
CaptureKeptStarted == captureDevice

\* line 657: ma_device_stop(&g_engine.captureDevice)
CaptureStoppedAgain == "stopped"

\* lines 654-664: ma_device_start(&g_engine.playbackDevice); when it fails
\* the capture device is stopped again, which waits for its callback.
StartPlayback(ok) ==
    /\ StatusKept /\ UNCHANGED <<resources, stale>>
    /\ ctl = "start_playback"
    /\ IF ok
       THEN /\ playbackDevice' = "started"
            /\ startedPending' = (startedPending \/ playbackDevice = "stopped")
            /\ ctl' = "start_finish"
            /\ ret' = Called("AudioEngine_Start", "none")
            /\ UNCHANGED <<lastError, ctlOp, captureDevice>>
       ELSE /\ playbackDevice = "stopped"
            /\ cpc = "idle"
            /\ captureDevice' = CaptureStoppedAgain
            /\ lastError' = TA_FAILED_TO_START_BACKEND_DEVICE
            /\ ctl' = "idle" /\ ctlOp' = "none"
            /\ ret' = Called("AudioEngine_Start", TA_FAILED_TO_START_BACKEND_DEVICE)
            /\ UNCHANGED <<playbackDevice, startedPending>>
    /\ UNCHANGED <<initialized, running, volume, channels, ringBufferSizeInFrames,
                   ringBufferTargetFrames, underrunCount, overrunCount,
                   driftCorrectionCount, lastSample, stateChangedCallback>>
    /\ UNCHANGED <<rbVars, captureVars, playbackVars, ghostVars>>
    /\ Silent

\* lines 666-673
StartFinish ==
    /\ StatusKept /\ UNCHANGED <<resources, stale>>
    /\ ctl = "start_finish"
    /\ running' = 1
    /\ NotifyStateChanged(stateChangedCallback, 1)
    /\ lastError' = TA_SUCCESS
    /\ ctl' = "idle" /\ ctlOp' = "none"
    /\ ret' = Called("AudioEngine_Start", TA_SUCCESS)
    /\ UNCHANGED <<initialized, volume, channels, ringBufferSizeInFrames,
                   ringBufferTargetFrames, underrunCount, overrunCount,
                   driftCorrectionCount, lastSample, stateChangedCallback>>
    /\ UNCHANGED <<rbVars, deviceVars, captureVars, playbackVars, ghostVars>>


(* ---------- playback_notification_callback (lines 369-397) ------------ *)

\* case ma_device_notification_type_started: the device layer delivers it
\* from its own thread once the playback device has started
PlaybackNotifyStarted ==
    /\ StatusKept /\ UNCHANGED <<resources, stale>>
    /\ startedPending
    /\ playbackDevice = "started"
    /\ startedPending' = FALSE
    /\ running' = 1
    /\ NotifyStateChanged(stateChangedCallback, 1)
    /\ ret' = NoCall
    /\ UNCHANGED <<initialized, volume, channels, ringBufferSizeInFrames,
                   ringBufferTargetFrames, underrunCount, overrunCount,
                   driftCorrectionCount, lastSample, stateChangedCallback, lastError>>
    /\ UNCHANGED <<rbVars, captureDevice, playbackDevice, controlVars, captureVars,
                   playbackVars, ghostVars>>

\* case ma_device_notification_type_stopped, when the playback device stops
\* on its own (it failed or was unplugged): no callback of it is running
PlaybackDeviceStops ==
    /\ StatusKept /\ UNCHANGED <<resources, stale>>
    /\ playbackDevice = "started"
    /\ ~startedPending
    /\ ppc = "idle"
    /\ playbackDevice' = "stopped"
    /\ running' = 0
    /\ NotifyStateChanged(stateChangedCallback, 0)
    /\ ret' = NoCall
    /\ UNCHANGED <<initialized, volume, channels, ringBufferSizeInFrames,
                   ringBufferTargetFrames, underrunCount, overrunCount,
                   driftCorrectionCount, lastSample, stateChangedCallback, lastError>>
    /\ UNCHANGED <<rbVars, captureDevice, startedPending, controlVars, captureVars,
                   playbackVars, ghostVars>>

(* ------------------ AudioEngine_Stop (lines 676-704) ------------------ *)

\* lines 677-684: the state checks
StopBegin ==
    /\ StatusKept /\ UNCHANGED <<resources, stale>>
    /\ ctl = "idle"
    /\ IF NotInitialized
       THEN /\ lastError' = TA_DEVICE_NOT_INITIALIZED
            /\ ret' = Called("AudioEngine_Stop", TA_DEVICE_NOT_INITIALIZED)
            /\ UNCHANGED controlVars
       ELSE IF running = 0
       THEN /\ ret' = Called("AudioEngine_Stop", TA_SUCCESS)
            /\ UNCHANGED <<lastError, controlVars>>
       ELSE /\ ctl' = "stop_playback" /\ ctlOp' = "Stop"
            /\ ret' = Called("AudioEngine_Stop", "none")
            /\ UNCHANGED lastError
    /\ UNCHANGED <<initialized, running, volume, channels, ringBufferSizeInFrames,
                   ringBufferTargetFrames, underrunCount, overrunCount,
                   driftCorrectionCount, lastSample, stateChangedCallback>>
    /\ UNCHANGED <<rbVars, deviceVars, captureVars, playbackVars, ghostVars>>
    /\ Silent

\* line 687: ma_device_stop(&g_engine.playbackDevice) returns once the
\* device has delivered its notifications and no callback of it is running;
\* a device that stops delivers the stopped notification (lines 378-383)
StopPlayback ==
    /\ StatusKept /\ UNCHANGED <<resources, stale>>
    /\ ctl = "stop_playback"
    /\ ppc = "idle"
    /\ ~startedPending
    /\ IF playbackDevice = "started"
       THEN /\ playbackDevice' = "stopped"
            /\ running' = 0
            /\ NotifyStateChanged(stateChangedCallback, 0)
       ELSE Silent /\ UNCHANGED <<playbackDevice, running>>
    /\ ctl' = "stop_capture"
    /\ ret' = Called(IF ctlOp = "Stop" THEN "AudioEngine_Stop"
                     ELSE "AudioEngine_Uninitialize", "none")
    /\ UNCHANGED <<initialized, volume, channels, ringBufferSizeInFrames,
                   ringBufferTargetFrames, underrunCount, overrunCount,
                   driftCorrectionCount, lastSample, stateChangedCallback, lastError>>
    /\ UNCHANGED <<rbVars, captureDevice, startedPending, ctlOp, captureVars,
                   playbackVars, ghostVars>>

\* lines 688-703: ma_device_stop(&g_engine.captureDevice), then the flag,
\* the notification and the result; inside Uninitialize the release follows
StopCapture ==
    /\ StatusKept /\ UNCHANGED <<resources, stale>>
    /\ ctl = "stop_capture"
    /\ cpc = "idle"
    /\ captureDevice' = IF captureDevice = "started" THEN "stopped" ELSE captureDevice
    /\ running' = 0
    /\ NotifyStateChanged(stateChangedCallback, 0)
    /\ lastError' = TA_SUCCESS
    /\ IF ctlOp = "Stop"
       THEN /\ ctl' = "idle" /\ ctlOp' = "none"
            /\ ret' = Called("AudioEngine_Stop", TA_SUCCESS)
       ELSE /\ ctl' = "uninit_release" /\ ctlOp' = ctlOp
            /\ ret' = Called("AudioEngine_Uninitialize", "none")
    /\ UNCHANGED <<initialized, volume, channels, ringBufferSizeInFrames,
                   ringBufferTargetFrames, underrunCount, overrunCount,
                   driftCorrectionCount, lastSample, stateChangedCallback>>
    /\ UNCHANGED <<rbVars, playbackDevice, startedPending, captureVars, playbackVars,
                   ghostVars>>

(* -------------- AudioEngine_Uninitialize (lines 706-732) -------------- *)

\* an Uninitialize that never stops the engine first
NoImplicitStop == FALSE

\* line 711: if (g_engine.running) AudioEngine_Stop();
ImplicitStop == running # 0

\* lines 707-713: the state check and the implicit Stop
UninitializeBegin ==
    /\ StatusKept /\ UNCHANGED <<resources, stale>>
    /\ ctl = "idle"
    /\ IF initialized = 0
       THEN /\ ret' = Called("AudioEngine_Uninitialize", TA_SUCCESS)
            /\ UNCHANGED controlVars
       ELSE /\ ctl' = IF ImplicitStop THEN "stop_playback" ELSE "uninit_release"
            /\ ctlOp' = "Uninitialize"
            /\ ret' = Called("AudioEngine_Uninitialize", "none")
    /\ UNCHANGED <<engineVars, rbVars, deviceVars, captureVars, playbackVars,
                   ghostVars>>
    /\ Silent

\* lines 715-731: ma_device_uninit of both devices (each stops its device
\* first and waits for its callback), the release of the ring buffer, and
\* memset(&g_engine, 0, sizeof(ta_engine))
UninitializeRelease ==
    /\ StatusKept
    /\ ctl = "uninit_release"
    /\ cpc = "idle" /\ ppc = "idle"
    /\ ~startedPending
    /\ NotifyStateChanged(stateChangedCallback /\ playbackDevice = "started", 0)
    /\ captureDevice' = "none" /\ playbackDevice' = "none"
    /\ ringBufferMemory' = <<>> /\ rbRead' = 0 /\ rbWrite' = 0
    /\ initialized' = 0 /\ running' = 0 /\ volume' = 0 /\ channels' = 0
    /\ ringBufferSizeInFrames' = 0 /\ ringBufferTargetFrames' = 0
    /\ underrunCount' = 0 /\ overrunCount' = 0 /\ driftCorrectionCount' = 0
    /\ lastSample' = ZeroCache
    /\ stateChangedCallback' = FALSE
    /\ lastError' = TA_SUCCESS
    /\ capSeq' = 0 /\ expected' = <<>> /\ fidelityOk' = TRUE
    /\ resources' = NoResources /\ stale' = {}
    /\ ctl' = "idle" /\ ctlOp' = "none"
    /\ ret' = Called("AudioEngine_Uninitialize", TA_SUCCESS)
    /\ UNCHANGED <<startedPending, captureVars, playbackVars>>

(* ------------------ the other control-plane calls --------------------- *)

\* lines 734-740: v is the requested volume
AudioEngine_SetVolume(v) ==
    /\ StatusKept /\ UNCHANGED <<resources, stale>>
    /\ ctl = "idle"
    /\ volume' = IF v < 0 THEN 0 ELSE IF v > VolScale THEN VolScale ELSE v
    /\ ret' = Called("AudioEngine_SetVolume", TA_SUCCESS)
    /\ UNCHANGED <<initialized, running, channels, ringBufferSizeInFrames,
                   ringBufferTargetFrames, underrunCount, overrunCount,
                   driftCorrectionCount, lastSample, stateChangedCallback, lastError>>
    /\ UNCHANGED <<rbVars, deviceVars, controlVars, captureVars, playbackVars,
                   ghostVars>>
    /\ Silent

\* lines 812-814: callback is a handler (TRUE) or NULL (FALSE)
AudioEngine_SetStateChangedCallback(callback) ==
    /\ StatusKept /\ UNCHANGED <<resources, stale>>
    /\ ctl = "idle"
    /\ stateChangedCallback' = callback
    /\ ret' = Called("AudioEngine_SetStateChangedCallback", "void")
    /\ UNCHANGED <<initialized, running, volume, channels, ringBufferSizeInFrames,
                   ringBufferTargetFrames, underrunCount, overrunCount,
                   driftCorrectionCount, lastSample, lastError>>
    /\ UNCHANGED <<rbVars, deviceVars, controlVars, captureVars, playbackVars,
                   ghostVars>>
    /\ Silent

\* lines 742-744: the call returns g_engine.volume
Returned(op, value) == [op |-> op, result |-> "value", value |-> value]

AudioEngine_GetVolume ==
    /\ ctl = "idle"
    /\ ret' = Returned("AudioEngine_GetVolume", volume)
    /\ StatusKept
    /\ UNCHANGED <<engineVars, rbVars, deviceVars, controlVars, captureVars,
                   playbackVars, ghostVars, resources, stale>>
    /\ Silent

\* lines 746-794.  `present` is FALSE for a NULL status pointer.  The fields
\* are copied first (751-756); an initialized engine then asks the ring
\* buffer for available_read (line 760), which loads the read cursor and
\* then the write cursor: the callbacks run between the two loads.
GetStatusBegin(present) ==
    /\ ctl = "idle"
    /\ IF ~present
       THEN /\ ret' = Called("AudioEngine_GetStatus", TA_INVALID_ARGS)
            /\ StatusKept
            /\ UNCHANGED controlVars
       ELSE LET copied == [written |-> TRUE,
                           isRunning |-> IF running # 0 THEN 1 ELSE 0,
                           currentVolume |-> volume,
                           underrunCount |-> underrunCount,
                           overrunCount |-> overrunCount,
                           driftCorrectionCount |-> driftCorrectionCount,
                           lastError |-> lastError,
                           readCursor |-> 0, availableRead |-> 0, capacity |-> 0]
            IN  IF initialized # 0
                THEN /\ status' = [copied EXCEPT !.readCursor = rbRead]
                     /\ ctl' = "get_status" /\ ctlOp' = "GetStatus"
                     /\ ret' = Called("AudioEngine_GetStatus", "none")
                ELSE /\ status' = copied
                     /\ ret' = Called("AudioEngine_GetStatus", TA_SUCCESS)
                     /\ UNCHANGED controlVars
    /\ UNCHANGED <<engineVars, rbVars, deviceVars, captureVars, playbackVars,
                   ghostVars, resources, stale>>
    /\ Silent

\* lines 760-766: the second load of available_read and the fill level
GetStatusFinish ==
    /\ ctl = "get_status"
    /\ status' = [status EXCEPT
                     !.readCursor = 0,
                     !.availableRead =
                         IF ringBufferSizeInFrames > 0
                         THEN ma_pcm_rb_available_read(status.readCursor, rbWrite,
                                                       ringBufferSizeInFrames)
                         ELSE 0,
                     !.capacity = ringBufferSizeInFrames]
    /\ ctl' = "idle" /\ ctlOp' = "none"
    /\ ret' = Called("AudioEngine_GetStatus", TA_SUCCESS)
    /\ UNCHANGED <<engineVars, rbVars, deviceVars, captureVars, playbackVars,
                   ghostVars, resources, stale>>
    /\ Silent

\* lines 820-822: captureDeviceCount as the engine holds it
CaptureDeviceCount == IF resources.deviceList = "none" THEN 0 ELSE 1

\* lines 828-847: the index is checked against captureDeviceCount only, and
\* the entry is read through captureDevices whether or not the list is
\* still owned by a context.
AudioEngine_GetCaptureDeviceInfo(index) ==
    /\ ctl = "idle"
    /\ ret' = Called("AudioEngine_GetCaptureDeviceInfo",
                     IF index < 0 \/ index >= CaptureDeviceCount
                     THEN TA_INVALID_ARGS ELSE TA_SUCCESS)
    /\ StatusKept
    /\ UNCHANGED <<engineVars, rbVars, deviceVars, controlVars, captureVars,
                   playbackVars, ghostVars, resources, stale>>
    /\ Silent

(* --------------------------- specifications --------------------------- *)

\* The requested volumes: below, inside and above the range.
VolumeRequests == {-1, 1, VolScale + 1}

FrameCounts == 1..MaxFrames

\* No capture or playback callback is in progress.
CallbacksIdle == cpc = "idle" /\ ppc = "idle"

\* No other operation is in progress.
CaptureAlone == ctl = "idle" /\ ppc = "idle"

PlaybackAlone == ctl = "idle" /\ cpc = "idle"

Quiet == ctl = "idle" /\ CallbacksIdle

\* One operation at a time: an operation that has begun runs to its end
\* before another begins.  The audio path under a caller that initializes
\* with the default channel count, starts once and raises the
\* volume, on devices that start when asked to.
AudioConfigs ==
    {c \in Configs : c.channels = 0 /\ c.volume = 1 /\ c.ringBufferSizeFrames = MaxRing}

NextAudio ==
    \/ \E cfg \in AudioConfigs : CallbacksIdle /\ AudioEngine_Initialize(cfg, "none")
    \/ CallbacksIdle /\ running = 0 /\ StartBegin(TRUE)
    \/ CallbacksIdle /\ StartCapture(TRUE)
    \/ CallbacksIdle /\ StartPlayback(TRUE)
    \/ CallbacksIdle /\ StartFinish
    \/ \E v \in {VolScale + 1} : CallbacksIdle /\ AudioEngine_SetVolume(v)
    \/ Quiet /\ PlaybackNotifyStarted
    \/ \E n \in FrameCounts : CaptureAlone /\ CaptureBegin(n)
    \/ CaptureAlone /\ CaptureAcquire
    \/ CaptureAlone /\ CaptureCopy
    \/ CaptureAlone /\ CaptureCommit
    \/ CaptureAlone /\ CaptureReturn
    \/ \E n \in FrameCounts : PlaybackAlone /\ PlaybackBegin(n)
    \/ PlaybackAlone /\ PlaybackCountDrift
    \/ PlaybackAlone /\ PlaybackSkip
    \/ PlaybackAlone /\ PlaybackAcquire
    \/ PlaybackAlone /\ PlaybackCopy
    \/ PlaybackAlone /\ PlaybackCommit
    \/ PlaybackAlone /\ PlaybackPad
    \/ PlaybackAlone /\ PlaybackReturn

Spec == Init /\ [][NextAudio]_vars

(* The whole control plane, one operation at a time, with every failure of *)
(* Initialize and of the device starts, a playback device that may stop on *)
(* its own, and callbacks of one frame.                                     *)
LifecycleConfigs ==
    {c \in Configs : c.channels = 1 /\ c.volume = 1 /\ c.ringBufferSizeFrames = 3} \cup {NULL}

NextLifecycle ==
    \/ \E cfg \in LifecycleConfigs, stage \in InitStages :
          CallbacksIdle /\ AudioEngine_Initialize(cfg, stage)
    \/ \E mmcssOk \in BOOLEAN : CallbacksIdle /\ StartBegin(mmcssOk)
    \/ \E ok \in BOOLEAN : CallbacksIdle /\ StartCapture(ok)
    \/ \E ok \in BOOLEAN : CallbacksIdle /\ StartPlayback(ok)
    \/ CallbacksIdle /\ StartFinish
    \/ CallbacksIdle /\ StopBegin
    \/ CallbacksIdle /\ StopPlayback
    \/ CallbacksIdle /\ StopCapture
    \/ CallbacksIdle /\ UninitializeBegin
    \/ CallbacksIdle /\ UninitializeRelease
    \/ \E v \in {VolScale + 1} : CallbacksIdle /\ AudioEngine_SetVolume(v)
    \/ \E cb \in BOOLEAN : CallbacksIdle /\ AudioEngine_SetStateChangedCallback(cb)
    \/ Quiet /\ PlaybackNotifyStarted
    \/ Quiet /\ PlaybackDeviceStops
    \/ CaptureAlone /\ CaptureBegin(1)
    \/ CaptureAlone /\ CaptureAcquire
    \/ CaptureAlone /\ CaptureCopy
    \/ CaptureAlone /\ CaptureCommit
    \/ CaptureAlone /\ CaptureReturn
    \/ PlaybackAlone /\ PlaybackBegin(1)
    \/ PlaybackAlone /\ PlaybackCountDrift
    \/ PlaybackAlone /\ PlaybackSkip
    \/ PlaybackAlone /\ PlaybackAcquire
    \/ PlaybackAlone /\ PlaybackCopy
    \/ PlaybackAlone /\ PlaybackCommit
    \/ PlaybackAlone /\ PlaybackPad
    \/ PlaybackAlone /\ PlaybackReturn

SpecLifecycle == Init /\ [][NextLifecycle]_vars

(* The control-plane calls on an engine that is never started: every      *)
(* configuration, every step at which Initialize can fail, and the calls  *)
(* that report what the engine holds.                                     *)
\* a channel count one above the slots of float lastSample[8]
WideChannels == LastSampleSlots + 1

ControlConfigs ==
    [present : {TRUE}, volume : VolumeRequests, channels : {1, WideChannels},
     ringBufferSizeFrames : {3}] \cup {NULL}

NextControl ==
    \/ \E cfg \in ControlConfigs, stage \in InitStages :
          AudioEngine_Initialize(cfg, stage)
    \/ UninitializeBegin
    \/ UninitializeRelease
    \/ StopBegin
    \/ \E v \in VolumeRequests : AudioEngine_SetVolume(v)
    \/ AudioEngine_GetVolume
    \/ \E present \in BOOLEAN : GetStatusBegin(present)
    \/ GetStatusFinish
    \/ \E index \in {0, 1} : AudioEngine_GetCaptureDeviceInfo(index)

SpecControl == Init /\ [][NextControl]_vars

(* One invocation of a callback from any state of the buffer: a Running    *)
(* engine whose ring buffer has any size up to maxRing, any cursor         *)
(* positions and a different frame in every slot.                          *)
SlotSample(s, c) == 100 + 10 * s + c

SlotFrame(s, ch) == [c \in 1..ch |-> SlotSample(s, c)]

UnitCache == [c \in 1..LastSampleSlots |-> IF c <= 2 THEN 6 + c ELSE 0]

RunningEngine(maxRing) ==
    /\ initialized = 1 /\ running = 1 /\ volume = 1 /\ channels = 2
    /\ ringBufferSizeInFrames \in 1..maxRing
    /\ ringBufferTargetFrames = TargetFrames(ringBufferSizeInFrames)
    /\ ringBufferMemory = [s \in 1..ringBufferSizeInFrames |-> SlotFrame(s, 2)]
    /\ rbRead \in 0..(2 * ringBufferSizeInFrames - 1)
    /\ \E avail \in 0..ringBufferSizeInFrames :
          rbWrite = ma_pcm_rb_commit(rbRead, ringBufferSizeInFrames, avail)
    /\ underrunCount = 0 /\ overrunCount = 0 /\ driftCorrectionCount = 0
    /\ lastSample \in {ZeroCache, UnitCache}
    /\ stateChangedCallback = FALSE /\ lastError = TA_SUCCESS
    /\ captureDevice = "started" /\ playbackDevice = "started"
    /\ startedPending = FALSE
    /\ ctl = "idle" /\ ctlOp = "none" /\ ret = NoCall
    /\ cpc = "idle" /\ cap = CapIdle
    /\ ppc = "idle" /\ play = PlayIdle /\ output = <<>>
    /\ capSeq = 0 /\ expected = <<>> /\ fidelityOk = TRUE
    /\ lastNotify = <<>>
    /\ resources = InitResources("none") /\ status = NoStatus /\ stale = {}

InitUnit == RunningEngine(MaxUnitRing)

UnitFrameCounts == 1..MaxUnitFrames

NextUnit ==
    \/ \E n \in UnitFrameCounts : Quiet /\ CaptureBegin(n)
    \/ CaptureAlone /\ CaptureAcquire
    \/ CaptureAlone /\ CaptureCopy
    \/ CaptureAlone /\ CaptureCommit
    \/ \E n \in UnitFrameCounts : Quiet /\ PlaybackBegin(n)
    \/ PlaybackAlone /\ PlaybackCountDrift
    \/ PlaybackAlone /\ PlaybackSkip
    \/ PlaybackAlone /\ PlaybackAcquire
    \/ PlaybackAlone /\ PlaybackCopy
    \/ PlaybackAlone /\ PlaybackCommit
    \/ PlaybackAlone /\ PlaybackPad

SpecUnit == InitUnit /\ [][NextUnit]_vars

(* One capture invocation and one playback invocation running concurrently *)
(* from any state of the buffer, interleaved step by step.                 *)
InitPair == RunningEngine(MaxRing)

NextPair ==
    \/ \E n \in FrameCounts : CaptureBegin(n)
    \/ CaptureAcquire
    \/ CaptureCopy
    \/ CaptureCommit
    \/ \E n \in FrameCounts : PlaybackBegin(n)
    \/ PlaybackCountDrift
    \/ PlaybackSkip
    \/ PlaybackAcquire
    \/ PlaybackCopy
    \/ PlaybackCommit
    \/ PlaybackPad

SpecPair == InitPair /\ [][NextPair]_vars

(* Start on an Initialized engine in any condition a previous Running      *)
(* period can leave it in (any capacity up to MaxStartRing, any cursors,   *)
(* a different frame in every slot, either cache, any counters), followed  *)
(* by the callbacks, one operation at a time.                              *)
StoppedEngine(maxRing) ==
    /\ initialized = 1 /\ running = 0 /\ volume = 1 /\ channels = 2
    /\ ringBufferSizeInFrames \in 1..maxRing
    /\ ringBufferTargetFrames = TargetFrames(ringBufferSizeInFrames)
    /\ ringBufferMemory = [s \in 1..ringBufferSizeInFrames |-> SlotFrame(s, 2)]
    /\ rbRead \in 0..(2 * ringBufferSizeInFrames - 1)
    /\ \E avail \in 0..ringBufferSizeInFrames :
          rbWrite = ma_pcm_rb_commit(rbRead, ringBufferSizeInFrames, avail)
    /\ underrunCount \in 0..MaxCount /\ overrunCount \in 0..MaxCount
    /\ driftCorrectionCount \in 0..MaxCount
    /\ lastSample \in {ZeroCache, UnitCache}
    /\ stateChangedCallback = FALSE /\ lastError = TA_SUCCESS
    /\ captureDevice = "stopped" /\ playbackDevice = "stopped"
    /\ startedPending = FALSE
    /\ ctl = "idle" /\ ctlOp = "none" /\ ret = NoCall
    /\ cpc = "idle" /\ cap = CapIdle
    /\ ppc = "idle" /\ play = PlayIdle /\ output = <<>>
    /\ capSeq = 0 /\ expected = <<>> /\ fidelityOk = TRUE
    /\ lastNotify = <<>>
    /\ resources = InitResources("none") /\ status = NoStatus
    /\ stale = 1..ringBufferSizeInFrames

InitStart == StoppedEngine(MaxStartRing)

NextStart ==
    \/ \E mmcssOk \in BOOLEAN : CallbacksIdle /\ StartBegin(mmcssOk)
    \/ \E ok \in BOOLEAN : CallbacksIdle /\ StartCapture(ok)
    \/ \E ok \in BOOLEAN : CallbacksIdle /\ StartPlayback(ok)
    \/ CallbacksIdle /\ StartFinish
    \/ Quiet /\ PlaybackNotifyStarted
    \/ \E n \in FrameCounts : CaptureAlone /\ CaptureBegin(n)
    \/ CaptureAlone /\ CaptureAcquire
    \/ CaptureAlone /\ CaptureCopy
    \/ CaptureAlone /\ CaptureCommit
    \/ CaptureAlone /\ CaptureReturn
    \/ \E n \in UnitFrameCounts : PlaybackAlone /\ PlaybackBegin(n)
    \/ PlaybackAlone /\ PlaybackCountDrift
    \/ PlaybackAlone /\ PlaybackSkip
    \/ PlaybackAlone /\ PlaybackAcquire
    \/ PlaybackAlone /\ PlaybackCopy
    \/ PlaybackAlone /\ PlaybackCommit
    \/ PlaybackAlone /\ PlaybackPad
    \/ PlaybackAlone /\ PlaybackReturn

SpecStart == InitStart /\ [][NextStart]_vars

(* The callbacks against Start: the device layer invokes a callback as    *)
(* soon as its device is started, so invocations arrive between the       *)
(* steps of Start, before the running flag is set, as well as after the   *)
(* playback device stopped on its own.                                    *)
InitWindow == StoppedEngine(MaxRing)

NextWindow ==
    \/ \E mmcssOk \in BOOLEAN : CallbacksIdle /\ StartBegin(mmcssOk)
    \/ \E ok \in BOOLEAN : StartCapture(ok)
    \/ \E ok \in BOOLEAN : StartPlayback(ok)
    \/ StartFinish
    \/ PlaybackNotifyStarted
    \/ PlaybackDeviceStops
    \/ \E n \in FrameCounts : ppc = "idle" /\ CaptureBegin(n)
    \/ ppc = "idle" /\ CaptureAcquire
    \/ ppc = "idle" /\ CaptureCopy
    \/ ppc = "idle" /\ CaptureCommit
    \/ ppc = "idle" /\ CaptureReturn
    \/ \E n \in FrameCounts : cpc = "idle" /\ PlaybackBegin(n)
    \/ cpc = "idle" /\ PlaybackCountDrift
    \/ cpc = "idle" /\ PlaybackSkip
    \/ cpc = "idle" /\ PlaybackAcquire
    \/ cpc = "idle" /\ PlaybackCopy
    \/ cpc = "idle" /\ PlaybackCommit
    \/ cpc = "idle" /\ PlaybackPad
    \/ cpc = "idle" /\ PlaybackReturn

SpecWindow == InitWindow /\ [][NextWindow]_vars

(* The three threads together: the control-plane calls of one caller, the *)
(* capture callback and the playback callback, interleaved step by step,  *)
(* on devices that start when asked to and stop only when asked to, with  *)
(* the volume at 0.                                                       *)
ConcurrentConfigs ==
    [present : {TRUE}, volume : {0}, channels : {1}, ringBufferSizeFrames : {3}]

NextConcurrent ==
    \/ \E cfg \in ConcurrentConfigs : AudioEngine_Initialize(cfg, "none")
    \/ StartBegin(TRUE)
    \/ StartCapture(TRUE)
    \/ StartPlayback(TRUE)
    \/ StartFinish
    \/ StopBegin
    \/ StopPlayback
    \/ StopCapture
    \/ UninitializeBegin
    \/ UninitializeRelease
    \/ \E v \in {-1} : AudioEngine_SetVolume(v)
    \/ GetStatusBegin(TRUE)
    \/ GetStatusFinish
    \/ PlaybackNotifyStarted
    \/ CaptureBegin(1)
    \/ CaptureAcquire
    \/ CaptureCopy
    \/ CaptureCommit
    \/ CaptureReturn
    \/ PlaybackBegin(1)
    \/ PlaybackCountDrift
    \/ PlaybackSkip
    \/ PlaybackAcquire
    \/ PlaybackCopy
    \/ PlaybackCommit
    \/ PlaybackPad
    \/ PlaybackReturn

SpecConcurrent == Init /\ [][NextConcurrent]_vars

(* ====================== properties of the ring buffer ================== *)

\* Neither side is between an acquire and its commit.
NoAcquirePending == cpc \notin {"copy", "commit"} /\ ppc \notin {"copy", "commit"}

\* C1: after any sequence of Start, capture and playback invocations, in
\* every state where no acquire is pending, available_read plus
\* available_write equals the capacity and available_read lies between 0
\* and the capacity.
C1_RingAccounting ==
    (initialized = 1 /\ NoAcquirePending) =>
        /\ AvailableRead + AvailableWrite = ringBufferSizeInFrames
        /\ AvailableRead >= 0
        /\ AvailableRead <= ringBufferSizeInFrames

\* C1 witness: both callbacks have run since Start, the read cursor is on
\* its second lap and the buffer is full.
C1_Witness ==
    /\ running = 1 /\ cpc = "idle" /\ ppc = "idle"
    /\ rbRead >= ringBufferSizeInFrames
    /\ AvailableRead = ringBufferSizeInFrames
    /\ AvailableWrite = 0

\* The storage slots (1-based) of the frames that are committed and not
\* yet consumed.
CommittedSlots ==
    {rb_offset(rbRead + i - 1, ringBufferSizeInFrames) + 1 : i \in 1..AvailableRead}

\* C2: under every interleaving of one capture invocation with one
\* playback invocation, the frames a write stores into are inside the
\* storage and are none of the committed, unconsumed frames, and the frames
\* a read copies are all committed.
C2_NoOverlap ==
    /\ cpc = "copy" =>
          CaptureWriteSlots \subseteq ((1..ringBufferSizeInFrames) \ CommittedSlots)
    /\ ppc = "copy" => PlaybackReadSlots \subseteq CommittedSlots

\* C2 witness: both callbacks are about to copy at once, in a buffer of
\* several frames that holds committed frames and wraps.
C2_Witness ==
    /\ cpc = "copy" /\ ppc = "copy"
    /\ cap.writeAvailable > 0 /\ play.actualRead > 0
    /\ cap.writeAvailable < cap.framesToWrite
    /\ ringBufferSizeInFrames > 2

(* ================= properties of one callback invocation ============== *)

\* What a finished capture invocation found when it began.
CapturePreRead ==
    ma_pcm_rb_available_read(cap.pre.rbRead, cap.pre.rbWrite, ringBufferSizeInFrames)

CapturePreWrite ==
    ma_pcm_rb_available_write(cap.pre.rbRead, cap.pre.rbWrite, ringBufferSizeInFrames)

\* What a finished playback invocation found when it began.
PlaybackPreRead ==
    ma_pcm_rb_available_read(play.pre.rbRead, play.pre.rbWrite, ringBufferSizeInFrames)

PlaybackPreFrames ==
    Readable(play.pre.mem, play.pre.rbRead, ringBufferSizeInFrames, PlaybackPreRead)

\* C3: a capture invocation while Running that offers n frames with
\* n > available_write() = w commits exactly its first w frames, counts one
\* overrun, leaves the committed unread frames as they were and leaves
\* available_write() at 0; with w = 0 the storage is unchanged.
C3_OverrunCommitsFirstW ==
    (cpc = "done" /\ cap.pre.running = 1 /\ cap.frameCount > CapturePreWrite) =>
        /\ AvailableRead = CapturePreRead + CapturePreWrite
        /\ \A i \in 1..CapturePreWrite :
              Readable(ringBufferMemory, rbRead, ringBufferSizeInFrames,
                       CapturePreRead + CapturePreWrite)[CapturePreRead + i]
                 = CaptureStored(i - 1)
        /\ overrunCount = cap.pre.overrunCount + 1
        /\ Readable(ringBufferMemory, rbRead, ringBufferSizeInFrames, CapturePreRead)
              = Readable(cap.pre.mem, cap.pre.rbRead, ringBufferSizeInFrames,
                         CapturePreRead)
        /\ AvailableWrite = 0
        /\ CapturePreWrite = 0 => ringBufferMemory = cap.pre.mem

\* C4: a playback invocation while Running that requests n frames when
\* available_read() is 0 outputs the cached last sample in each of the n
\* frames (silence when nothing is cached), adds exactly 1 to the underrun
\* and the drift-correction counters and moves neither cursor.
C4_FullUnderflow ==
    (ppc = "done" /\ play.pre.running = 1 /\ PlaybackPreRead = 0) =>
        /\ output = [i \in 1..play.frameCount |->
                        [c \in 1..channels |-> play.pre.lastSample[c]]]
        /\ underrunCount = play.pre.underrunCount + 1
        /\ driftCorrectionCount = play.pre.driftCorrectionCount + 1
        /\ overrunCount = play.pre.overrunCount
        /\ rbRead = play.pre.rbRead /\ rbWrite = play.pre.rbWrite

\* C4 witness: a request for two frames found the buffer empty and a
\* nonzero frame in the cache.
C4_Witness ==
    /\ ppc = "done" /\ play.pre.running = 1 /\ PlaybackPreRead = 0
    /\ play.frameCount = 2 /\ play.pre.lastSample = UnitCache
    /\ ringBufferSizeInFrames > 1

\* What the compress step of a finished playback invocation did: the
\* oldest frame left the buffer and is nowhere in the output, the frames
\* that were read are the ones after it, only the drift-correction counter
\* moved, and the cache holds the last frame read.
DiscardedOldest ==
    /\ play.skipped = 1
    /\ AvailableRead = PlaybackPreRead - 1 - play.actualRead
    /\ play.actualRead >= 1
    /\ \A i \in 1..play.actualRead : output[i] = PlaybackPreFrames[i + 1]
    /\ \A i \in 1..Len(output) : output[i] # PlaybackPreFrames[1]
    /\ driftCorrectionCount = play.pre.driftCorrectionCount + 1
    /\ underrunCount = play.pre.underrunCount
    /\ overrunCount = play.pre.overrunCount
    /\ lastSample = CacheFrame(play.pre.lastSample,
                               PlaybackPreFrames[1 + play.actualRead])

\* C5 as the specification states it: the discard happens whenever
\* available_read * 100 > 75 * capacity and available_read() > frameCount + 1.
C5_ExactThreshold ==
    (/\ ppc = "done" /\ play.pre.running = 1
     /\ PlaybackPreRead * 100 > TA_DRIFT_HIGH_THRESHOLD_PERCENT * ringBufferSizeInFrames
     /\ PlaybackPreRead > play.frameCount + 1) => DiscardedOldest

\* C5: in a playback invocation while Running, whenever the whole-number
\* fill percentage (available_read * 100) / capacity is above 75 and
\* available_read() > frameCount + 1, exactly the oldest frame is removed
\* without appearing in the output, the drift-correction counter increases
\* by 1, the other counters do not change and the cache is not updated from
\* the discarded frame.
C5_HighFillDiscard ==
    (/\ ppc = "done" /\ play.pre.running = 1
     /\ FillPercent(PlaybackPreRead, ringBufferSizeInFrames)
            > TA_DRIFT_HIGH_THRESHOLD_PERCENT
     /\ PlaybackPreRead > play.frameCount + 1) => DiscardedOldest

\* C5 witness: a request for two frames found exactly four in a nearly
\* full buffer, and the frames it read end at the end of the storage.
C5_Witness ==
    /\ ppc = "done" /\ play.pre.running = 1
    /\ FillPercent(PlaybackPreRead, ringBufferSizeInFrames)
           > TA_DRIFT_HIGH_THRESHOLD_PERCENT
    /\ play.frameCount = 2 /\ PlaybackPreRead = 4
    /\ play.skipped = 1 /\ play.actualRead = 1

(* ====================== properties of the audio path ================== *)

\* C6: in a run of capture and playback invocations after Start in which
\* no overrun, underrun or drift correction is counted, the output is the
\* pre-fill silence followed by the captured frames in capture order, each
\* multiplied by the volume in effect when it was written, with no frame
\* lost, duplicated or reordered.
C6_Fidelity ==
    (overrunCount = 0 /\ underrunCount = 0 /\ driftCorrectionCount = 0)
        => fidelityOk

(* ======================= properties of the lifecycle ================== *)

\* The step is the first step of a control-plane call.
CallBegins(op) == ctl = "idle" /\ ret'.op = op

SameEngine ==
    /\ EngineState' = EngineState
    /\ UNCHANGED <<underrunCount, overrunCount, driftCorrectionCount>>
    /\ UNCHANGED <<rbRead, rbWrite, lastSample, volume>>
    /\ UNCHANGED <<captureDevice, playbackDevice>>

\* C8: Start while Running, Stop while Initialized and not running, and
\* Uninitialize while Idle return success, leave the lifecycle state, the
\* counters, the cursors, the cache, the volume and both devices as they
\* were, and invoke no state-change handler.
C8_NoOps ==
    [][(\/ CallBegins("AudioEngine_Start") /\ EngineState = Running
        \/ CallBegins("AudioEngine_Stop") /\ EngineState = Initialized
        \/ CallBegins("AudioEngine_Uninitialize") /\ EngineState = Idle) =>
           /\ ret'.result = TA_SUCCESS
           /\ SameEngine
           /\ lastNotify' = <<>>]_vars

\* C8 witness: Start has returned success on a running engine with a
\* handler registered and an overrun counted, and changed nothing.
C8_Witness ==
    /\ ret.op = "AudioEngine_Start" /\ ret.result = TA_SUCCESS
    /\ EngineState = Running /\ ctl = "idle"
    /\ overrunCount > 0 /\ stateChangedCallback /\ lastNotify = <<>>

\* C9: Initialize with an absent config fails with TA_INVALID_ARGS in every
\* lifecycle state, Initialize with a present config on an initialized
\* engine fails with TA_DEVICE_ALREADY_INITIALIZED, and both leave the
\* lifecycle state, the ring buffer, the counters, the volume and the
\* devices as they were.
C9_InitializeRefused ==
    [][\A cfg \in LifecycleConfigs :
          (AudioEngine_Initialize(cfg, "none") /\ (~cfg.present \/ initialized # 0)) =>
              /\ ret'.result = IF ~cfg.present THEN TA_INVALID_ARGS
                               ELSE TA_DEVICE_ALREADY_INITIALIZED
              /\ EngineState' = EngineState
              /\ UNCHANGED <<ringBufferMemory, rbRead, rbWrite, ringBufferSizeInFrames,
                             ringBufferTargetFrames>>
              /\ UNCHANGED <<underrunCount, overrunCount, driftCorrectionCount>>
              /\ UNCHANGED <<volume, captureDevice, playbackDevice>>]_vars

\* C9 witness: Initialize without a config has just been refused on a
\* running engine that holds frames.
C9_Witness ==
    /\ ret.op = "AudioEngine_Initialize" /\ ret.result = TA_INVALID_ARGS
    /\ EngineState = Running /\ AvailableRead > 0

\* C10: Start while Idle and Stop while Idle fail with
\* TA_DEVICE_NOT_INITIALIZED, the engine stays Idle, no device is started
\* or stopped, and no counter, cursor or cache value changes.
C10_IdleRefused ==
    [][((CallBegins("AudioEngine_Start") \/ CallBegins("AudioEngine_Stop"))
            /\ EngineState = Idle) =>
           /\ ret'.result = TA_DEVICE_NOT_INITIALIZED
           /\ EngineState' = Idle
           /\ UNCHANGED <<captureDevice, playbackDevice>>
           /\ UNCHANGED <<underrunCount, overrunCount, driftCorrectionCount>>
           /\ UNCHANGED <<rbRead, rbWrite, lastSample>>]_vars

\* C10 witness: Start has just been refused on an engine that is Idle.
C10_Witness ==
    /\ ret.op = "AudioEngine_Start" /\ ret.result = TA_DEVICE_NOT_INITIALIZED
    /\ EngineState = Idle /\ lastError = TA_DEVICE_NOT_INITIALIZED

\* Initialize has returned the failure of one of its steps.
InitializeStepFailed ==
    /\ ret.op = "AudioEngine_Initialize"
    /\ ret.result \in {TA_FAILED_TO_INIT_BACKEND, TA_ERROR, TA_OUT_OF_MEMORY,
                       TA_FAILED_TO_OPEN_BACKEND_DEVICE}

\* C11: when Initialize returns the failure of any of its steps (context,
\* enumeration, allocation, ring buffer, capture binding, playback binding)
\* the engine is Idle and nothing the call acquired is held or can still be
\* reached: no context, no device list, no storage, no ring buffer and no
\* device binding.
C11_FailedInitializeRollsBack ==
    InitializeStepFailed =>
        /\ EngineState = Idle
        /\ captureDevice = "none" /\ playbackDevice = "none"
        /\ resources = NoResources

\* The step on which a Start of a stopped engine returns success.
StartSucceeds ==
    /\ ctl = "start_finish"
    /\ ret' = Called("AudioEngine_Start", TA_SUCCESS)

\* A playback invocation is reading from a slot whose content is older
\* than the last Start.
StaleDelivered == ppc = "copy" /\ PlaybackReadSlots \cap stale # {}

\* C12: when Start succeeds on an Initialized engine, whatever the previous
\* Running period left behind, the three counters are 0, the last-sample
\* cache is all zeros, available_read is floor(capacity * 50 / 100), every
\* readable frame is silence and the engine is Running; and no playback
\* invocation ever reads a frame stored before that Start.
C12_StartResets ==
    /\ [][StartSucceeds =>
            /\ underrunCount' = 0 /\ overrunCount' = 0 /\ driftCorrectionCount' = 0
            /\ lastSample' = ZeroCache
            /\ AvailableRead' =
                   (ringBufferSizeInFrames * TA_RING_BUFFER_TARGET_PERCENT) \div 100
            /\ \A i \in 1..AvailableRead' :
                   Readable(ringBufferMemory', rbRead', ringBufferSizeInFrames,
                            AvailableRead')[i] = ZeroFrame(channels)
            /\ EngineState' = Running]_vars
    /\ [](~StaleDelivered)

\* C12 witness: Start has returned success on the largest buffer, whose
\* slots beyond the silence still hold the frames of the previous period.
C12_Witness ==
    /\ ret = Called("AudioEngine_Start", TA_SUCCESS)
    /\ ringBufferSizeInFrames = MaxStartRing
    /\ AvailableRead = 3
    /\ stale # {}
    /\ \A s \in stale : ringBufferMemory[s] = SlotFrame(s, 2)

\* The invocation began in the state Start left: nothing written by capture
\* and nothing consumed.
FirstPlaybackAfterStart ==
    /\ play.pre.running = 1
    /\ play.pre.rbRead = 0
    /\ play.pre.rbWrite = ringBufferTargetFrames
    /\ stale = StaleAfterStart(ringBufferTargetFrames, ringBufferSizeInFrames)
    /\ play.frameCount <= ringBufferTargetFrames

\* C13: for every capacity and every request of 1 <= n <= target frames,
\* the first playback invocation after Start, before any capture, returns
\* n frames of silence, advances the read cursor by exactly n and leaves
\* the underrun and drift-correction counters at 0.
C13_FirstPlaybackSilence ==
    (ppc = "done" /\ FirstPlaybackAfterStart) =>
        /\ output = [i \in 1..play.frameCount |-> ZeroFrame(channels)]
        /\ rbRead = play.frameCount
        /\ underrunCount = 0 /\ driftCorrectionCount = 0

\* C13 witness: the first invocation asked for the whole target of the
\* largest buffer.
C13_Witness ==
    /\ ppc = "done" /\ FirstPlaybackAfterStart
    /\ ringBufferSizeInFrames = MaxStartRing
    /\ play.frameCount = ringBufferTargetFrames

\* C14: at every point of Start, of Stop and of the Stop inside
\* Uninitialize, the playback source is started and not yet stopped only
\* while the capture source is started and not yet stopped.
C14_CaptureBracketsPlayback ==
    playbackDevice = "started" => captureDevice = "started"

\* C14 witness: inside the Stop that Uninitialize performs, playback has
\* been stopped and capture is still started.
C14_Witness ==
    /\ ctlOp = "Uninitialize" /\ ctl = "stop_capture"
    /\ playbackDevice = "stopped" /\ captureDevice = "started"

\* C15: whenever Stop has returned success both sources are stopped and no
\* callback is in progress or can begin, also when the playback source had
\* reported "stopped" on its own before Stop was called.
C15_StopLeavesNoCallback ==
    ret = Called("AudioEngine_Stop", TA_SUCCESS) =>
        /\ captureDevice # "started" /\ playbackDevice # "started"
        /\ cpc = "idle" /\ ppc = "idle"

\* A step of Uninitialize.
InUninitialize(pc) == ctlOp = "Uninitialize" /\ ctl = pc

\* C16: Uninitialize called while Running first performs the whole Stop
\* sequence (playback stopped, then capture stopped, running cleared) with
\* everything still held, and only then releases the device bindings and
\* the storage; it returns success with the engine Idle and no resource
\* held.
C16_UninitializeStopsFirst ==
    [][/\ (CallBegins("AudioEngine_Uninitialize") /\ EngineState = Running) =>
            /\ InUninitialize("stop_playback")'
            /\ UNCHANGED <<resources, initialized, captureDevice, playbackDevice>>
       /\ InUninitialize("stop_playback") =>
            /\ InUninitialize("stop_capture")'
            /\ playbackDevice' = "stopped"
            /\ UNCHANGED <<resources, initialized, captureDevice>>
       /\ InUninitialize("stop_capture") =>
            /\ InUninitialize("uninit_release")'
            /\ playbackDevice' = "stopped" /\ captureDevice' = "stopped"
            /\ running' = 0
            /\ UNCHANGED <<resources, initialized>>
       /\ InUninitialize("uninit_release") =>
            /\ running = 0
            /\ ret' = Called("AudioEngine_Uninitialize", TA_SUCCESS)
            /\ EngineState' = Idle
            /\ captureDevice' = "none" /\ playbackDevice' = "none"
            /\ resources' = NoResources /\ ringBufferMemory' = <<>>
            /\ ctl' = "idle"]_vars

\* C16 witness: inside Uninitialize the Stop sequence has just finished
\* (its notification was delivered), both devices are stopped and the
\* storage is still held.
C16_Witness ==
    /\ InUninitialize("uninit_release")
    /\ lastNotify = <<0>>
    /\ captureDevice = "stopped" /\ playbackDevice = "stopped"
    /\ resources.storage = "held" /\ overrunCount > 0

\* The buffer, the counters and the cache are as the snapshot `pre` has
\* them.
SameAsBefore(pre) ==
    /\ rbRead = pre.rbRead /\ rbWrite = pre.rbWrite
    /\ ringBufferMemory = pre.mem
    /\ lastSample = pre.lastSample
    /\ underrunCount = pre.underrunCount
    /\ overrunCount = pre.overrunCount
    /\ driftCorrectionCount = pre.driftCorrectionCount

\* C17: a capture invocation that finds the engine not Running changes
\* nothing; a playback invocation that finds it not Running fills every
\* requested frame with silence and changes no cursor, counter or cache.
C17_NotRunningCallbacks ==
    /\ (cpc = "done" /\ cap.pre.running = 0) => SameAsBefore(cap.pre)
    /\ (ppc = "done" /\ play.pre.running = 0) =>
           /\ output = [i \in 1..play.frameCount |-> ZeroFrame(channels)]
           /\ SameAsBefore(play.pre)

\* C17 witness: playback was asked for MaxFrames frames between the start
\* of its device and the setting of the running flag, with the silence of
\* Start readable in the buffer.
C17_Witness ==
    /\ ppc = "done" /\ play.pre.running = 0 /\ play.frameCount = MaxFrames
    /\ ctl = "start_finish" /\ running = 0
    /\ AvailableRead = ringBufferTargetFrames /\ ringBufferTargetFrames > 0

\* The step lowers one of the three counters.
CounterDecreases ==
    \/ underrunCount' < underrunCount
    \/ overrunCount' < overrunCount
    \/ driftCorrectionCount' < driftCorrectionCount

CountersZeroed ==
    underrunCount' = 0 /\ overrunCount' = 0 /\ driftCorrectionCount' = 0

\* The first step of a Start that finds the engine Initialized.
StartLeavesInitialized ==
    CallBegins("AudioEngine_Start") /\ EngineState = Initialized

\* The last step of Uninitialize.
UninitializeClears == ctl = "uninit_release" /\ EngineState' = Idle

\* C18 as stated: under any interleaving of capture, playback, SetVolume
\* and GetStatus no counter decreases within a Running period, and the
\* counters are set back to 0 only by a Start that leaves the not-Running
\* state.
C18_OnlyStartResets ==
    [][/\ (running = 1 /\ running' = 1) => ~CounterDecreases
       /\ CounterDecreases => (StartLeavesInitialized /\ CountersZeroed)]_vars

\* C18, amended: under any interleaving of capture, playback, SetVolume
\* and GetStatus no counter decreases within a Running period, and the
\* counters are set back to 0 only by a Start that leaves the not-Running
\* state or by the Uninitialize that clears the engine.
C18_CountersMonotonic ==
    [][/\ (running = 1 /\ running' = 1) => ~CounterDecreases
       /\ CounterDecreases =>
            /\ StartLeavesInitialized \/ UninitializeClears
            /\ CountersZeroed]_vars

\* C18 witness: a Running engine on which every counter has counted, with
\* GetStatus and both callbacks in progress.
C18_Witness ==
    /\ running = 1 /\ ctl = "get_status"
    /\ cpc # "idle" /\ ppc # "idle"
    /\ underrunCount > 0 /\ overrunCount > 0 /\ driftCorrectionCount > 0

\* The volumes from 0.0 to 1.0.
VolumeRange == 0..VolScale

\* C19: in every reachable state the volume is within [0,1], whatever
\* Initialize took from its configuration and whatever SetVolume was
\* given, and GetVolume and GetStatus report a value within [0,1].
C19_VolumeInRange ==
    /\ volume \in VolumeRange
    /\ ret.op = "AudioEngine_GetVolume" => ret.value \in VolumeRange
    /\ status.written => status.currentVolume \in VolumeRange

\* AudioEngine_GetStatus has just returned the status structure.
StatusReturned == status.written /\ ctl # "get_status"

\* C20: the fill fraction GetStatus reports is within 0.0 .. 1.0, that is
\* the available_read it divides by the capacity is between 0 and the
\* capacity, also when the callbacks run during the call; it is 0 when the
\* engine is Idle.
C20_FillFractionInRange ==
    StatusReturned =>
        /\ status.availableRead >= 0
        /\ status.availableRead <= status.capacity
        /\ EngineState = Idle => status.availableRead = 0

(* =================== properties of the notifications ================== *)

\* C21: the state-change handler stays registered until a call of
\* SetStateChangedCallback replaces or removes it: no step of Initialize,
\* Start, Stop or Uninitialize, and no callback, changes the registration,
\* so a handler registered while Idle is still there at the next Start.
C21_HandlerStaysRegistered ==
    [][stateChangedCallback' # stateChangedCallback =>
          ret'.op = "AudioEngine_SetStateChangedCallback"]_vars

(* ================= properties of one callback invocation ============== *)

\* C22: a capture invocation while Running that offers n frames with
\* n <= available_write() commits all n frames in order, each sample
\* multiplied by the volume, also when the free region crosses the end of
\* the storage; available_read() grows by exactly n and the overrun
\* counter does not change.
C22_CaptureCommitsAll ==
    (cpc = "done" /\ cap.pre.running = 1 /\ cap.frameCount <= CapturePreWrite) =>
        /\ AvailableRead = CapturePreRead + cap.frameCount
        /\ \A i \in 1..cap.frameCount :
              Readable(ringBufferMemory, rbRead, ringBufferSizeInFrames,
                       AvailableRead)[CapturePreRead + i] = CaptureStored(i - 1)
        /\ overrunCount = cap.pre.overrunCount

\* A playback invocation while Running that neither drift rule touches.
PlaybackUncorrected ==
    /\ play.pre.running = 1
    /\ ~DriftLow(PlaybackPreRead, ringBufferSizeInFrames, play.frameCount)
    /\ ~DriftHigh(PlaybackPreRead, ringBufferSizeInFrames, play.frameCount)

\* C23: a playback invocation while Running on which no drift rule fires
\* and that finds available_read() >= frameCount copies exactly the
\* frameCount oldest frames to the output in FIFO order, also when they
\* cross the end of the storage; the read cursor advances by exactly
\* frameCount, no output frame is a repeat of the cached sample and no
\* counter changes.
C23_NormalReadDeliversAll ==
    (ppc = "done" /\ PlaybackUncorrected /\ PlaybackPreRead >= play.frameCount) =>
        /\ output = SubSeq(PlaybackPreFrames, 1, play.frameCount)
        /\ rbRead = ma_pcm_rb_commit(play.pre.rbRead, ringBufferSizeInFrames,
                                     play.frameCount)
        /\ underrunCount = play.pre.underrunCount
        /\ overrunCount = play.pre.overrunCount
        /\ driftCorrectionCount = play.pre.driftCorrectionCount

\* C24: a playback invocation while Running that finds the fill below 25%
\* and 0 < available_read() = a < frameCount adds 1 to the underrun and to
\* the drift-correction counter, outputs the a buffered frames in FIFO
\* order followed by frameCount - a repeats of the last of them, and leaves
\* the buffer empty, the read cursor advanced by exactly a.
C24_PartialUnderflowDrains ==
    (/\ ppc = "done" /\ play.pre.running = 1
     /\ FillPercent(PlaybackPreRead, ringBufferSizeInFrames)
            < TA_DRIFT_LOW_THRESHOLD_PERCENT
     /\ PlaybackPreRead > 0 /\ PlaybackPreRead < play.frameCount) =>
        /\ underrunCount = play.pre.underrunCount + 1
        /\ driftCorrectionCount = play.pre.driftCorrectionCount + 1
        /\ rbRead = ma_pcm_rb_commit(play.pre.rbRead, ringBufferSizeInFrames,
                                     PlaybackPreRead)
        /\ AvailableRead = 0
        /\ output = [i \in 1..play.frameCount |->
                        PlaybackPreFrames[IF i <= PlaybackPreRead THEN i
                                          ELSE PlaybackPreRead]]

\* The frame a finished capture invocation stored last.
CaptureLastStored == CaptureStored(cap.writeAvailable - 1)

\* C25: after a capture invocation while Running that writes at least one
\* frame, the last-sample cache holds, for every channel, the gain-adjusted
\* value of the last frame written, which is the newest frame of the
\* buffer; the slots beyond the channel count are left alone.
C25_CaptureCachesLastFrame ==
    (cpc = "done" /\ cap.pre.running = 1 /\ cap.writeAvailable > 0) =>
        /\ CachedFrame(lastSample, channels) = CaptureLastStored
        /\ CaptureLastStored =
              [c \in 1..channels |->
                  (InputSample(cap.first + cap.writeAvailable - 1, c) * volume)
                      \div VolScale]
        /\ Readable(ringBufferMemory, rbRead, ringBufferSizeInFrames,
                    AvailableRead)[AvailableRead] = CaptureLastStored
        /\ \A c \in (channels + 1)..LastSampleSlots :
              lastSample[c] = cap.pre.lastSample[c]

\* C25 witness: a capture invocation stored two frames over a cache that
\* held another frame, and the cache changed.
C25_Witness ==
    /\ cpc = "done" /\ cap.pre.running = 1 /\ cap.writeAvailable = 2
    /\ cap.pre.lastSample = UnitCache
    /\ lastSample # cap.pre.lastSample
    /\ CachedFrame(lastSample, channels) = CaptureLastStored

\* C26: the last-sample cache changes only in the step of a playback
\* invocation that copies real frames (to the final frame copied) and in
\* the step of Start that clears it; no other step, in particular no step
\* of a capture invocation running next to a playback invocation, ever
\* modifies it.
C26_CacheOnlyPlaybackOrStart ==
    [][lastSample' # lastSample =>
          \/ /\ ppc = "copy" /\ ppc' = "commit"
             /\ CachedFrame(lastSample', channels) = output'[play.actualRead]
          \/ ctlOp' = "Start" /\ lastSample' = ZeroCache]_vars

(* ===================== properties of the cursors ====================== *)

(* A Running engine whose playback device may stop on its own while the   *)
(* caller starts the engine again and reads or sets the volume: the       *)
(* caller's steps and the stop of the device interleave step by step with *)
(* a capture invocation, playback invocations run between them.           *)
InitRestart == RunningEngine(MaxRestartRing)

NextRestart ==
    \/ ppc = "idle" /\ StartBegin(TRUE)
    \/ ppc = "idle" /\ StartCapture(TRUE)
    \/ ppc = "idle" /\ StartPlayback(TRUE)
    \/ ppc = "idle" /\ StartFinish
    \/ \E v \in {1} : ppc = "idle" /\ AudioEngine_SetVolume(v)
    \/ ppc = "idle" /\ AudioEngine_GetVolume
    \/ PlaybackNotifyStarted
    \/ PlaybackDeviceStops
    \/ ppc = "idle" /\ CaptureBegin(1)
    \/ ppc = "idle" /\ CaptureAcquire
    \/ ppc = "idle" /\ CaptureCopy
    \/ ppc = "idle" /\ CaptureCommit
    \/ ppc = "idle" /\ CaptureReturn
    \/ PlaybackAlone /\ PlaybackBegin(1)
    \/ PlaybackAlone /\ PlaybackCountDrift
    \/ PlaybackAlone /\ PlaybackSkip
    \/ PlaybackAlone /\ PlaybackAcquire
    \/ PlaybackAlone /\ PlaybackCopy
    \/ PlaybackAlone /\ PlaybackCommit
    \/ PlaybackAlone /\ PlaybackPad
    \/ PlaybackAlone /\ PlaybackReturn

SpecRestart == InitRestart /\ [][NextRestart]_vars

\* The cursor moved forwards by at least one frame and at most the
\* capacity.
MovedForward(before, after) ==
    \E k \in 1..ringBufferSizeInFrames :
        after = ma_pcm_rb_commit(before, ringBufferSizeInFrames, k)

\* A callback invocation is between its first and its last access to the
\* ring buffer.
CaptureInBuffer == cpc \in {"acquire", "copy", "commit"}

PlaybackInBuffer == ppc \in {"count", "skip", "read", "copy", "commit"}

\* The step of Start that resets and pre-fills the ring buffer.
StartResets == ctl = "idle" /\ ctl' = "start_capture"

\* C27: while Running the write cursor is changed only by the capture
\* invocation and the read cursor only by the playback invocation, each
\* only forwards; SetVolume, GetVolume and a Start that finds the engine
\* Running modify neither cursor; and the reset and pre-fill of Start
\* never execute while a capture or playback invocation is accessing the
\* buffer.
C27_CursorOwnership ==
    [][/\ (running = 1 /\ rbWrite' # rbWrite) =>
              cpc = "commit" /\ MovedForward(rbWrite, rbWrite')
       /\ (running = 1 /\ rbRead' # rbRead) =>
              ppc \in {"skip", "commit"} /\ MovedForward(rbRead, rbRead')
       /\ ret'.op \in {"AudioEngine_SetVolume", "AudioEngine_GetVolume"} =>
              rbRead' = rbRead /\ rbWrite' = rbWrite
       /\ (ret'.op = "AudioEngine_Start" /\ running = 1) =>
              rbRead' = rbRead /\ rbWrite' = rbWrite
       /\ StartResets => ~CaptureInBuffer /\ ~PlaybackInBuffer]_vars

(* ================= properties of the drift correction ================= *)

(* Matched sides: on a Running engine the devices deliver and ask for the *)
(* same number of frames, a capture invocation and a playback invocation   *)
(* taking turns, capture first.  Both return once playback has finished.   *)
InitMatched == RunningEngine(MaxMatchedRing)

MatchedFrames == MaxFrames

\* The capture invocation of this round is over and playback is about to
\* be invoked.
PlaybackTurn == cpc = "done" /\ ppc = "idle"

NextMatched ==
    \/ Quiet /\ CaptureBegin(MatchedFrames)
    \/ CaptureAlone /\ CaptureAcquire
    \/ CaptureAlone /\ CaptureCopy
    \/ CaptureAlone /\ CaptureCommit
    \/ PlaybackTurn /\ PlaybackBegin(MatchedFrames)
    \/ cpc = "done" /\ PlaybackCountDrift
    \/ cpc = "done" /\ PlaybackSkip
    \/ cpc = "done" /\ PlaybackAcquire
    \/ cpc = "done" /\ PlaybackCopy
    \/ cpc = "done" /\ PlaybackCommit
    \/ cpc = "done" /\ PlaybackPad
    \/ ppc = "done" /\ CaptureReturn
    \/ cpc = "idle" /\ PlaybackReturn

SpecMatched == InitMatched /\ [][NextMatched]_vars

\* The drift rules as the next playback invocation of MatchedFrames frames
\* will evaluate them.
HighNow == DriftHigh(AvailableRead, ringBufferSizeInFrames, MatchedFrames)

LowNow == DriftLow(AvailableRead, ringBufferSizeInFrames, MatchedFrames)

\* A playback invocation on which the high-fill rule fired has finished.
CompressedPlayback ==
    /\ ppc = "done" /\ play.pre.running = 1
    /\ DriftHigh(PlaybackPreRead, ringBufferSizeInFrames, play.frameCount)

\* C28: with capture and playback invocations alternating with the same
\* frame count n, every playback invocation that finds the fill above 75%
\* and available_read() > n + 1 removes n + 1 frames; and once a
\* correction has been recorded and playback finds the fill back at 75% or
\* below (or available_read() at n + 1 or below), no later playback
\* invocation finds a drift rule applicable, so no further correction is
\* recorded.
C28_HighFillSelfLimits ==
    /\ [](CompressedPlayback =>
             rbRead = ma_pcm_rb_commit(play.pre.rbRead, ringBufferSizeInFrames,
                                       play.frameCount + 1))
    /\ []((PlaybackTurn /\ driftCorrectionCount > 0 /\ ~HighNow) =>
             [](PlaybackTurn => ~HighNow /\ ~LowNow))

(* ================== properties of the playback output ================= *)

\* The frames a finished playback invocation took out of the buffer.
PlaybackConsumed(k) ==
    rbRead = ma_pcm_rb_commit(play.pre.rbRead, ringBufferSizeInFrames, k)

\* C29: every playback invocation, whether the engine is Running or not
\* and whatever the fill and the cursor positions, has assigned a value to
\* every channel of all frameCount output frames when it returns, and has
\* consumed at most frameCount + 1 frames from the buffer.
C29_OutputFullyWritten ==
    ppc = "done" =>
        /\ Len(output) = play.frameCount
        /\ \A i \in 1..play.frameCount :
              /\ Len(output[i]) = channels
              /\ \A c \in 1..channels : output[i][c] # Unwritten
        /\ \E k \in 0..(play.frameCount + 1) : PlaybackConsumed(k)

\* C29 witness: a playback invocation on a Running engine discarded one
\* frame, read one of the two frames asked for and padded the other, so
\* that the output is part buffer, part cache.
C29_Witness ==
    /\ ppc = "done" /\ play.pre.running = 1
    /\ play.frameCount = 2 /\ play.skipped = 1 /\ play.actualRead = 1
    /\ PlaybackConsumed(2)
    /\ output[2] = CachedFrame(lastSample, channels)

\* The output frames of a finished playback invocation that are repeats of
\* the cached sample and not frames of the buffer.
RepeatedFrames == play.frameCount - play.actualRead

\* C30: a playback invocation while Running that puts at least one
\* repeated cached sample into its output increments the underrun
\* counter; equivalently, when the underrun counter is unchanged all
\* frameCount output frames came from the buffer.
C30_RepeatCountsUnderrun ==
    (ppc = "done" /\ play.pre.running = 1) =>
        /\ RepeatedFrames > 0 => underrunCount = play.pre.underrunCount + 1
        /\ underrunCount = play.pre.underrunCount =>
              \A i \in 1..play.frameCount :
                  output[i] = play.pre.mem[play.offset + i]

(* ==================== properties of a failed Start ==================== *)

\* The step in which AudioEngine_Start returns the failed-to-start error.
StartFails ==
    /\ ret'.op = "AudioEngine_Start"
    /\ ret'.result = TA_FAILED_TO_START_BACKEND_DEVICE

\* C31: a Start that fails because the capture or the playback device
\* cannot be started returns the failed-to-start backend error with the
\* engine Initialized and not Running, neither device started (a capture
\* device already started is stopped again) and no started notification
\* pending, and leaves the engine ready for another Start; no step of a
\* Start up to the start of the playback device, and no failing step,
\* delivers a state-change notification with value 1.
C31_FailedStartRollsBack ==
    [][/\ StartFails =>
             /\ ctlOp = "Start"
             /\ initialized' = 1 /\ running' = 0
             /\ captureDevice' # "started" /\ playbackDevice' # "started"
             /\ lastError' = TA_FAILED_TO_START_BACKEND_DEVICE
             /\ ctl' = "idle" /\ ~startedPending'
       /\ (StartFails \/ ctl' \in {"start_capture", "start_playback"}) =>
             lastNotify' # <<1>>]_vars

\* C31 witness: after a Start that failed, another Start has passed its
\* state checks, started the capture device and is about to start the
\* playback device.
C31_Witness ==
    /\ ctl = "start_playback" /\ ctlOp = "Start"
    /\ lastError = TA_FAILED_TO_START_BACKEND_DEVICE
    /\ captureDevice = "started" /\ playbackDevice = "stopped"
    /\ stateChangedCallback

C33_DriftCoversUnderruns ==
    /\ driftCorrectionCount >= underrunCount
    /\ status.written => status.driftCorrectionCount >= status.underrunCount

(* =================== properties of the channel count ================== *)

\* C34: for every configuration Initialize accepts, the channel count the
\* callbacks use is between 1 and 8, so that every lastSample[ch] with
\* ch < channels is one of the 8 slots of the cache; a configuration with
\* 0 channels is treated as 2.
C34_ChannelsFitCache ==
    initialized # 0 => channels \in 1..LastSampleSlots
====
